---- MODULE Spec2Model ----
(***************************************************************************)
(* Model of the render/scan core of the SEO analyzer:                      *)
(*   app/browser_fetch.py  _normalize_wait_until, _BrowserPool (start,     *)
(*                         stop, page), fetch_rendered, shutdown_pool      *)
(*   app/seo.py            WAF cooldown table, fetch, analyze              *)
(* Every coroutine is cut at its suspension points (the awaits): one       *)
(* action runs a coroutine from one await to the next, as the asyncio      *)
(* event loop does.  asyncio.Semaphore is modelled as CPython 3.11 runs it *)
(* (FIFO waiters, a released slot is handed to the first waiter).          *)
(*                                                                         *)
(* Six specifications share the variables and the actions:                 *)
(*   SpecPool    callers of _POOL.page() with a body of their own, and a   *)
(*               controller calling start() and stop()                     *)
(*   FairPool    SpecPool under fair scheduling of every coroutine         *)
(*   SpecRender  one caller of fetch_rendered, over wait tokens and options *)
(*   SpecScan    concurrent callers of analyze, with the wall clock        *)
(*   SpecApi     requests to the HTTP handlers of app/main.py, one at a     *)
(*               time, with the result dict of each scan                   *)
(*   SpecPure    the functions of app/seo.py that compute a value from     *)
(*               their arguments alone, each applied to bounded inputs     *)
(***************************************************************************)
EXTENDS Naturals, Integers, Sequences, FiniteSets, TLC

\* ---------------------------------------------------------------- bounds
\* concurrent callers (of _POOL.page() or of analyze)
NumTasks == 2
\* browser processes that may exist at the same time
MaxBrowsers == 2
\* render contexts that may be leaked and not yet closed with their browser
MaxLeaks == 1
\* last instant of the wall clock
MaxTime == 2
\* last instant of the wall clock where one request runs at a time
MaxClock == 4
\* the alphabetic runs of a text handed to keyword_density
MaxWords == 6
\* the entries of a JSON-LD list handed to validate_jsonld
MaxItems == 2
\* the links handed to _check_urls
MaxUrls == 5
\* the runs of like <img> elements of a page handed to parse_html
MaxImgRuns == 2
\* the <a href> elements of a page handed to parse_html
MaxAnchors == 3
\* the lines of a robots.txt
MaxLines == 3

\* ------------------------------------------------------ program constants
\* PLAYWRIGHT_MAX_CONTEXTS (environment value chosen for the model)
max_contexts == 1
\* WAF_COOLDOWN_SEC (environment value chosen for the model)
WAF_COOLDOWN_SEC == 1

Ctl == 0
Tasks == 1..NumTasks
Procs == Tasks \cup {Ctl}
BrowserIds == 1..MaxBrowsers
Hosts == {"a.example", "b.example"}

VARIABLES
    started,     \* _BrowserPool._started
    browser,     \* _BrowserPool._browser: 0 is None, else the id of a launch
    playwright,  \* _BrowserPool._playwright: 0 is None, else the id of a launch
    alive,       \* browser processes launched and not closed
    leaked,      \* per browser: contexts created whose close() was never called
    semFree,     \* _BrowserPool._sem._value
    waiters,     \* _BrowserPool._sem._waiters, in arrival order
    pc,          \* where each coroutine is suspended
    caller,      \* which entry point each task came in through
    ctxB,        \* per task: browser its render context was requested from
    exc,         \* per task: exception in flight while the finally block runs
    held,        \* per process: local handle a pending close()/stop() acts on
    result,      \* per process: how its last call ended
    envWait,     \* os.environ PLAYWRIGHT_WAIT_UNTIL
    fastScan,    \* FAST_SCAN
    psiKey,      \* PSI_API_KEY is set
    opts,        \* per task: fetch_rendered's wait_until (normalized, and as
                 \* given), wait_ms_after, screenshot
    nav,         \* per task: how the gotos of the render in hand have ended
    gotoMode,    \* per task: wait_until of the goto last issued
    host,        \* per task: host = _host(url) of its last analyze call
    target,      \* per task: host of the URL being rendered
    phase,       \* per task: analyze's primary render or its AMP re-render
    doc,         \* per task: result dict of a handler's analyze: key -> origin
    response,    \* per task: what its HTTP handler answered last
    pure,        \* the call in hand of a function without side effects:
                 \* its name, its arguments, what it returned
    now,         \* time.time()
    cooldown     \* _WAF_COOLDOWN: host -> until_ts

poolVars == <<started, browser, playwright, alive>>
semVars == <<semFree, waiters>>
\* what no step of the pool, of a render or of a scan changes
envVars == <<envWait, fastScan, psiKey, pure>>
\* the locals of a task's call: gone when the call has ended
localVars == <<opts, nav, gotoMode, target, phase, doc>>
vars == <<started, browser, playwright, alive, leaked, semFree, waiters, pc,
          caller, ctxB, exc, held, result, envWait, fastScan, psiKey, opts,
          nav, gotoMode, host, target, phase, doc, response, pure, now,
          cooldown>>

\* pcs of fetch_rendered's body, between "yield page, logs" and the finally
BodyPcs == {"body", "goto1", "goto2", "wheel1", "sleep1", "wheel2", "sleep2",
            "wheel3", "sleep3", "settle", "selector", "content", "headers",
            "screenshot", "rest"}
\* pcs at which a task is inside "async with self._sem" and has a context
CtxPcs == {"new_page", "ctx_close"} \cup BodyPcs
\* pcs at which a task holds a slot of the semaphore
SlotPcs == {"sem_granted", "new_context"} \cup CtxPcs
LaunchPcs == {"start_pw", "start_launch"}
\* pcs of _BrowserPool.page and of the render inside it
PagePcs == LaunchPcs \cup {"sem_wait"} \cup SlotPcs
\* pcs of analyze's auxiliary fetches
AuxPcs == {"robots", "links_int", "links_ext", "psi_mobile", "psi_desktop"}

RECURSIVE SumLeaked(_)
SumLeaked(S) ==
    IF S = {} THEN 0
    ELSE LET b == CHOOSE x \in S : TRUE IN leaked[b] + SumLeaked(S \ {b})

\* contexts a task holds that are open: created, browser still running
OpenHeld == {t \in Tasks : pc[t] \in CtxPcs /\ ctxB[t] \in alive}
OpenContexts == Cardinality(OpenHeld) + SumLeaked(BrowserIds)
SlotsHeld == Cardinality({t \in Tasks : pc[t] \in SlotPcs})
Launching == Cardinality({p \in Procs : pc[p] \in LaunchPcs})
\* ids no process and no handle of the program uses
FreeIds ==
    {b \in BrowserIds :
        /\ b \notin alive
        /\ b \notin {browser, playwright}
        /\ \A p \in Procs : held[p] # b
        /\ \A t \in Tasks : ctxB[t] # b}
\* a launch may begin while an id is left for the process it creates
LaunchBudget == Launching < Cardinality(FreeIds)
NewId == CHOOSE b \in FreeIds : \A c \in FreeIds : b <= c
Quiescent == \A t \in Tasks : pc[t] \in {"idle", "off"}

\* ------------------------------------------------- _normalize_wait_until
\* a str is the sequence of its characters; None is NoneTok, which is the
\* sequence of no str
NoneTok == <<"None">>
W_load == <<"l", "o", "a", "d">>
W_domcontentloaded ==
    <<"d", "o", "m", "c", "o", "n", "t", "e", "n", "t", "l", "o", "a", "d",
      "e", "d">>
W_networkidle == <<"n", "e", "t", "w", "o", "r", "k", "i", "d", "l", "e">>
W_commit == <<"c", "o", "m", "m", "i", "t">>
_ALLOWED_WAITS == {W_load, W_domcontentloaded, W_networkidle, W_commit}

W_dom == <<"d", "o", "m">>
W_idle == <<"i", "d", "l", "e">>
W_content == <<"c", "o", "n", "t", "e", "n", "t">>
W_loaded == <<"l", "o", "a", "d", "e", "d">>
W_Loaded == <<"L", "o", "a", "d", "e", "d">>
W_document == <<"d", "o", "c", "u", "m", "e", "n", "t">>
W_network == <<"n", "e", "t", "w", "o", "r", "k">>
W_call == <<"(", ")">>
\* the keys of _WAIT_ALIASES, each with its value
_WAIT_ALIASES ==
    { <<W_dom, W_domcontentloaded>>,
      <<W_dom \o <<"_">> \o W_loaded, W_domcontentloaded>>,
      <<W_dom \o W_content, W_domcontentloaded>>,
      <<W_dom \o <<"-">> \o W_content \o <<"-">> \o W_loaded, W_domcontentloaded>>,
      <<W_domcontentloaded, W_domcontentloaded>>,
      <<W_document \o W_loaded, W_domcontentloaded>>,
      <<W_document \o <<"_">> \o W_loaded, W_domcontentloaded>>,
      <<W_domcontentloaded \o W_call, W_domcontentloaded>>,
      <<W_dom \o W_content \o W_Loaded, W_domcontentloaded>>,
      <<W_dom \o <<"C">> \o Tail(W_content) \o W_Loaded, W_domcontentloaded>>,
      <<W_network \o <<"_">> \o W_idle, W_networkidle>>,
      <<W_network \o <<"-">> \o W_idle, W_networkidle>>,
      <<W_networkidle \o W_call, W_networkidle>>,
      <<W_network \o <<"I">> \o Tail(W_idle), W_networkidle>>,
      <<W_idle, W_networkidle>> }

Whitespace == {" ", "\t", "\n"}
UpperCase == <<"A", "B", "C", "D", "E", "F", "G", "H", "I", "J", "K", "L", "M",
               "N", "O", "P", "Q", "R", "S", "T", "U", "V", "W", "X", "Y", "Z">>
LowerCase == <<"a", "b", "c", "d", "e", "f", "g", "h", "i", "j", "k", "l", "m",
               "n", "o", "p", "q", "r", "s", "t", "u", "v", "w", "x", "y", "z">>
\* str.lower() on one character
LowerChar(c) ==
    IF \E i \in 1..Len(UpperCase) : UpperCase[i] = c
    THEN LowerCase[CHOOSE i \in 1..Len(UpperCase) : UpperCase[i] = c]
    ELSE c
\* str.lower()
Lower(s) == [i \in 1..Len(s) |-> LowerChar(s[i])]
\* str.strip()
RECURSIVE LStrip(_)
LStrip(s) ==
    IF s # <<>> /\ Head(s) \in Whitespace THEN LStrip(Tail(s)) ELSE s
RECURSIVE RStrip(_)
RStrip(s) ==
    IF s # <<>> /\ s[Len(s)] \in Whitespace
    THEN RStrip(SubSeq(s, 1, Len(s) - 1)) ELSE s
Strip(s) == LStrip(RStrip(s))
\* "x or y" on an Optional[str]
OrElse(x, y) == IF x = NoneTok \/ x = <<>> THEN y ELSE x
\* dict.get(key, default) on _WAIT_ALIASES
AliasGet(v) ==
    IF \E e \in _WAIT_ALIASES : e[1] = v
    THEN (CHOOSE e \in _WAIT_ALIASES : e[1] = v)[2]
    ELSE v

\* mutant: the alias table is consulted, the allowed set is not
NormalizeNoAllowedCheck(val, default) ==
    AliasGet(Lower(Strip(OrElse(val, <<>>))))

_normalize_wait_until(val, default) ==
    LET v == AliasGet(Lower(Strip(OrElse(val, <<>>))))
    IN IF v \in _ALLOWED_WAITS THEN v ELSE default

\* fetch_rendered lines 118-119: the mode the primary goto waits for
WaitUntilOf(arg, env) == _normalize_wait_until(OrElse(arg, env), W_networkidle)

\* ------------------------------------------------------------- semaphore
HasWaiting(p) == \E i \in 1..Len(waiters) : p[waiters[i]] = "sem_wait"
FirstWaiting(p) ==
    waiters[CHOOSE i \in 1..Len(waiters) :
                /\ p[waiters[i]] = "sem_wait"
                /\ \A j \in 1..(i - 1) : p[waiters[j]] # "sem_wait"]

\* mutant: the slot is given back on normal exit only (no try/finally)
SemReleaseOnReturnOnly(f, p, raised) ==
    IF raised THEN [free |-> f, pc |-> p]
    ELSE IF HasWaiting(p)
         THEN [free |-> f, pc |-> [p EXCEPT ![FirstWaiting(p)] = "sem_granted"]]
         ELSE [free |-> f + 1, pc |-> p]

\* mutant: release() adds to the count and wakes nobody
SemReleaseNoWake(f, p, raised) == [free |-> f + 1, pc |-> p]

\* __aexit__ of "async with self._sem": Semaphore.release(), whatever the
\* outcome; the slot goes to the first waiter whose future is not done
SemRelease(f, p, raised) ==
    IF HasWaiting(p)
    THEN [free |-> f, pc |-> [p EXCEPT ![FirstWaiting(p)] = "sem_granted"]]
    ELSE [free |-> f + 1, pc |-> p]

RemoveWaiter(t) == SelectSeq(waiters, LAMBDA x : x # t)

\* The slot is t's: evaluate self._browser.new_context(...) (line 89).
\* b is self._browser now, f the free count with t's slot taken, w the
\* waiters, p, r and c the pc, result and ctxB maps so far.
NewContextCall(t, b, f, w, p, r, c) ==
    IF b = 0
    THEN \* AttributeError on None: leaves the with block at once
         LET s == SemRelease(f, p, TRUE) IN
         /\ semFree' = s.free
         /\ pc' = [s.pc EXCEPT ![t] = "idle"]
         /\ result' = [r EXCEPT ![t] = "attr_error"]
         /\ waiters' = w
         /\ ctxB' = c
    ELSE /\ semFree' = f
         /\ pc' = [p EXCEPT ![t] = "new_context"]
         /\ result' = r
         /\ waiters' = w
         /\ ctxB' = [c EXCEPT ![t] = b]

\* "async with self._sem" (line 88): Semaphore.acquire()
EnterSem(t, b, f, p, r, c) ==
    IF f > 0 /\ waiters = <<>>
    THEN NewContextCall(t, b, f - 1, waiters, p, r, c)
    ELSE /\ waiters' = Append(waiters, t)
         /\ pc' = [p EXCEPT ![t] = "sem_wait"]
         /\ semFree' = f
         /\ result' = r
         /\ ctxB' = c

\* _BrowserPool.page up to its first suspension (lines 85-89)
PageEnter(t, f, p, r, c) ==
    IF ~started
    THEN /\ pc' = [p EXCEPT ![t] = "start_pw"]
         /\ semFree' = f
         /\ result' = r
         /\ waiters' = waiters
         /\ ctxB' = c
    ELSE EnterSem(t, browser, f, p, r, c)

\* ------------------------------------------------------- analyze's result
\* A result dict is modelled by its keys and, for each key, where its value
\* was taken from.
\* the keys of the dict parse_html returns (lines 420-451)
ParseKeys ==
    { "url", "title", "description", "canonical", "robots_meta", "open_graph",
      "twitter_card", "has_open_graph", "has_twitter_card", "headings", "h1",
      "h2", "h3", "h4", "h5", "h6", "internal_links", "external_links",
      "nofollow_links", "images_missing_alt", "hreflang", "json_ld",
      "microdata", "rdfa", "sd_types", "json_ld_validation",
      "keyword_density_top", "is_amp", "amp_url", "checks" }
\* the keys the WAF fallback copies from the AMP page (lines 605-608)
AmpKeys ==
    { "title", "description", "canonical", "robots_meta", "open_graph",
      "twitter_card", "has_open_graph", "has_twitter_card", "headings", "h1",
      "h2", "h3", "h4", "h5", "h6", "internal_links", "external_links",
      "nofollow_links", "images_missing_alt", "hreflang", "json_ld",
      "microdata", "rdfa", "sd_types", "json_ld_validation",
      "keyword_density_top" }
\* the keys of the perf block (lines 578-592)
PerfKeys == {"status_code", "content_length", "load_time_ms", "performance"}
\* the keys of the auxiliary sections (lines 616-642)
AuxKeys == {"crawl_checks", "link_checks", "pagespeed"}
AllKeys == ParseKeys \cup PerfKeys \cup AuxKeys \cup {"notes", "errors"}
\* the dict without keys
NoDoc == [k \in {} |-> "absent"]
KeysOf(d) == DOMAIN d
\* d.get(k) ("absent": the key is not in the dict)
Get(d, k) == IF k \in DOMAIN d THEN d[k] ELSE "absent"
\* d[k] = v
Put(d, k, v) == [x \in (DOMAIN d) \cup {k} |-> IF x = k THEN v ELSE d[x]]
\* parse_html(url, body, headers, load_ms) of the page rendered from src
ParseHtml(src) == [k \in ParseKeys |-> src]
\* analyze lines 575-598: the parsed primary page with its perf block
PrimaryDoc ==
    [k \in ParseKeys \cup PerfKeys |->
        IF k \in PerfKeys THEN "page" ELSE ParseHtml("page")[k]]
\* mutant: result.update(amp_res)
AmpUpdateAll(d, amp_res) ==
    Put([k \in (DOMAIN d) \cup (DOMAIN amp_res) |->
            IF k \in DOMAIN amp_res THEN amp_res[k] ELSE d[k]],
        "notes", "amp_note")
\* analyze lines 604-611: the AMP page's signals are copied, a note is added
AmpOverwrite(d, amp_res) ==
    LET copied == AmpKeys \cap DOMAIN amp_res
    IN Put([k \in (DOMAIN d) \cup copied |->
               IF k \in copied THEN amp_res[k] ELSE d[k]],
           "notes", "amp_note")
\* analyze line 614: result.setdefault("errors", []).append(...)
AmpBlockedDoc(d) == Put(d, "errors", "waf_error")
\* analyze lines 567-571: what is returned for a host in cooldown
CooldownDoc ==
    [k \in {"url", "status_code", "errors"} |->
        CASE k = "url" -> "page"
          [] k = "status_code" -> "zero"
          [] k = "errors" -> "cooldown_msg"]

\* ------------------------------------------------------------ HTTP layer
\* entry points through which analyze is reached: seo.analyze itself, or
\* the handlers analyze_get / api_analyze of main.py
ScanCallers == {"scan", "http"}
\* the results with which analyze returns (every other one is an exception)
ScanReturns == {"cooldown", "plain", "waf_no_amp", "amp_analyzed", "amp_blocked"}
NoResponse == [kind |-> "none", body |-> NoDoc]
\* save_analysis(url=..., result=..., ...) of app/db.py: the write goes
\* through (TRUE) or raises (FALSE)
SaveOutcomes == BOOLEAN
\* analyze_get / api_analyze after "await analyze_url(norm)" (main.py lines
\* 203-220, 232-248): save_analysis is inside the try block, so whatever
\* analyze or save_analysis raises becomes the 500 answer
HandlerResponse(r, d, saved) ==
    IF r \in ScanReturns /\ saved
    THEN [kind |-> "result", body |-> d]
    ELSE [kind |-> "error", body |-> NoDoc]

\* ----------------------------------------------- functions of app/seo.py
\* fn is called with arg; ret is what it returned, once it has returned
Called(fn, arg) == [fn |-> fn, arg |-> arg, ret |-> <<>>, returned |-> FALSE]
\* the function called returns ret
Returns(fn, ret) ==
    /\ pure.fn = fn
    /\ ~pure.returned
    /\ pure' = [pure EXCEPT !.ret = ret, !.returned = TRUE]
    /\ UNCHANGED <<poolVars, leaked, semVars, pc, caller, ctxB, exc, held,
                   result, envWait, fastScan, psiKey, localVars, response,
                   host, now, cooldown>>

\* parse_html: robots_meta and the two checks made of it and of the header
\* (lines 291-292, 377-381, 409, 411)
ParseRobots(meta, header) ==
    LET \* "noindex" not in value.lower()
        IndexAllowed(value) == value \notin {"noindex", "NOINDEX, nofollow"}
    IN [robots_meta |-> meta,
        checks |-> [robots_meta_index |-> IndexAllowed(meta),
                    x_robots_tag |-> IndexAllowed(header)]]
\* mutant: the status is left out of the derivation
IndexableWithoutStatus(status, checks) ==
    checks.robots_meta_index /\ checks.x_robots_tag
\* analyze lines 594-597
Indexable(status, checks) ==
    /\ status # 404
    /\ checks.robots_meta_index
    /\ checks.x_robots_tag
\* analyze lines 574-611, as far as status_code, robots_meta and checks go
AnalyzeSignals(i) ==
    LET parsed == ParseRobots(i.meta, i.header)
        checks == [robots_meta_index |-> parsed.checks.robots_meta_index,
                   x_robots_tag |-> parsed.checks.x_robots_tag,
                   indexable |-> Indexable(i.status, parsed.checks)]
        amp_res == ParseRobots(i.amp_meta, "")
    IN [robots_meta |-> IF i.waf /\ i.amp_url /\ i.body2
                        THEN amp_res.robots_meta ELSE parsed.robots_meta,
        checks |-> checks,
        status_code |-> i.status]
AnalyzeReturns == Returns("analyze", AnalyzeSignals(pure.arg))

\* keyword_density: the words of STOPWORDS (lines 257-261) that the texts
\* drawn hold
STOPWORDS == {<<"t", "h", "e">>, <<"a", "n", "d">>, <<"f", "o", "r">>}
\* mutant: the percent is cut after the second decimal
Floor2(c, total) == (10000 * c) \div total
\* round(100.0 * c / total, 2) in hundredths: to the nearest hundredth, a
\* tie to the even one. A tie needs total >= 32, and below 4000 a tie
\* falls on a multiple of 1/8, which the float holds exactly.
Round2(c, total) ==
    LET q == (10000 * c) \div total
        r == (10000 * c) % total
    IN IF 2 * r > total \/ (2 * r = total /\ q % 2 = 1) THEN q + 1 ELSE q
\* keyword_density (lines 256-270). text is given by its maximal runs of
\* letters, in order; the result holds percent in hundredths.
keyword_density(text, top_n) ==
    LET lowered == [i \in 1..Len(text) |-> Lower(text[i])]
        Long(w) == Len(w) >= 3
        Counted(w) == w \notin STOPWORDS
        \* re.findall(r"[A-Za-z]{3,}", text.lower()) without the stopwords
        words == SelectSeq(SelectSeq(lowered, Long), Counted)
        \* the keys of freq, by the place of their first occurrence
        keys == {i \in 1..Len(words) :
                    \A j \in 1..(i - 1) : words[j] # words[i]}
        freq(i) == Cardinality({j \in 1..Len(words) : words[j] = words[i]})
        total == IF Len(words) = 0 THEN 1 ELSE Len(words)
        \* sorted(..., reverse=True) is stable: equal counts keep their order
        rank(i) == Cardinality({j \in keys : \/ freq(j) > freq(i)
                                             \/ freq(j) = freq(i) /\ j < i})
        n == IF Cardinality(keys) < top_n THEN Cardinality(keys) ELSE top_n
    IN [r \in 1..n |->
            LET i == CHOOSE k \in keys : rank(k) = r - 1
            IN [word |-> words[i], count |-> freq(i),
                percent |-> Round2(freq(i), total)]]
\* mutant: an Event needs its name only
SdReqEventByName(t) ==
    CASE t \in {"Article", "BlogPosting", "NewsArticle"} -> <<"headline">>
      [] t \in {"Product", "Organization", "Event"} -> <<"name">>
      [] OTHER -> <<>>
\* _SD_REQUIRED.get(t, []) (lines 197-208)
_sd_req(t) ==
    CASE t \in {"Article", "BlogPosting", "NewsArticle"} -> <<"headline">>
      [] t \in {"Product", "Organization"} -> <<"name">>
      [] t = "Event" -> <<"name", "startDate">>
      [] t = "LocalBusiness" -> <<"name", "address">>
      [] t = "FAQPage" -> <<"mainEntity">>
      [] t = "HowTo" -> <<"name", "step">>
      [] OTHER -> <<>>
\* validate_jsonld (lines 210-227). An entry of jsonld_any is a dict or
\* not; a dict has "@type" absent, a string or a list of strings, given as
\* <<"absent">>, <<"str", s>> or <<"list", s1, ...>>, and its other keys
\* in fields, each a string (by its characters) or null (NoneTok).
validate_jsonld(jsonld_any) ==
    LET IsDict(e) == e.dict
        items == SelectSeq(jsonld_any, IsDict)
        tval(it) ==
            IF it.type[1] = "list" /\ Len(it.type) > 1 THEN it.type[2]
            ELSE IF it.type[1] = "str" /\ it.type[2] # "" THEN it.type[2]
            ELSE "Unknown"
        missing(it) ==
            LET Lacks(f) ==
                    \/ f \notin DOMAIN it.fields
                    \/ /\ it.fields[f] # NoneTok
                       /\ Strip(it.fields[f]) = <<>>
            IN SelectSeq(_sd_req(tval(it)), Lacks)
        report ==
            [i \in 1..Len(items) |->
                [type |-> tval(items[i]),
                 missing |-> missing(items[i]),
                 ok |-> IF _sd_req(tval(items[i])) # <<>>
                        THEN Len(missing(items[i])) = 0 ELSE TRUE]]
        summ ==
            [total_items |-> Len(items),
             ok_count |-> Cardinality({i \in 1..Len(report) : report[i].ok}),
             has_errors |-> \E i \in 1..Len(report) : ~report[i].ok]
    IN [summary |-> summ, items |-> report]
ValidateJsonldReturns ==
    Returns("validate_jsonld", validate_jsonld(pure.arg))

\* mutant: every URL is sampled
SampleAll(urls, limit) == urls
\* _check_urls line 504: sample = urls[:limit]
Sample(urls, limit) ==
    SubSeq(urls, 1, IF Len(urls) < limit THEN Len(urls) ELSE limit)
\* _check_urls (lines 503-526). A URL is given by what its server does:
\* <<h, g>>, h the status of its answer to HEAD and g to GET, "raise" for
\* a request that raises. Returned with out: the requests made, in order.
_check_urls(urls, limit) ==
    LET sample == Sample(urls, limit)
        Fallback(u) == u[1] \in {"405", "403", "400"}
        r(u) == IF Fallback(u) THEN u[2] ELSE u[1]
        entry(u) ==
            IF u[1] = "raise" \/ r(u) = "raise"
            THEN [url |-> u, error |-> TRUE, status |-> "None"]
            ELSE [url |-> u, error |-> FALSE, status |-> r(u)]
        sent(u) ==
            IF u[1] # "raise" /\ Fallback(u)
            THEN <<<<"HEAD", u>>, <<"GET", u>>>> ELSE <<<<"HEAD", u>>>>
        RECURSIVE Sent(_)
        Sent(us) == IF us = <<>> THEN <<>>
                    ELSE sent(Head(us)) \o Sent(Tail(us))
    IN [out |-> [i \in 1..Len(sample) |-> entry(sample[i])],
        requests |-> Sent(sample)]
CheckUrlsReturns ==
    Returns("_check_urls", _check_urls(pure.arg.urls, pure.arg.limit))

\* parse_html lines 333-345, 408, 440: the images. imgs gives the <img>
\* elements of the page by runs <<alt, n>>: n elements in a row with the
\* same alt attribute, NoneTok for none; images_missing_alt holds for
\* each run without alt the number of entries appended.
ParseImages(imgs) ==
    LET RECURSIVE Count(_, _)
        \* the elements of the first k runs, all of them or those with an
        \* alt that is not blank
        Count(k, with_alt) ==
            IF k = 0 THEN 0
            ELSE Count(k - 1, with_alt)
                 + IF with_alt => Strip(OrElse(imgs[k][1], <<>>)) # <<>>
                   THEN imgs[k][2] ELSE 0
        total_imgs == Count(Len(imgs), FALSE)
        alt_ok == Count(Len(imgs), TRUE)
        NoAlt(run) == Strip(OrElse(run[1], <<>>)) = <<>>
        missing_alt == SelectSeq(imgs, NoAlt)
        alt_percent == IF total_imgs # 0 THEN Round2(alt_ok, total_imgs)
                       ELSE 10000
    IN [percent |-> alt_percent,
        ok |-> alt_percent >= 8000,
        total_imgs |-> total_imgs,
        images_missing_alt |->
            [i \in 1..Len(missing_alt) |-> missing_alt[i][2]]]
ParseImagesReturns == Returns("parse_html_images", ParseImages(pure.arg))

\* urljoin(url, href) for the page https://site/page and a stripped href
urljoin(href) ==
    CASE href \in {<<"/a">>, <<"a">>} -> "https://site/a"
      [] href = <<"https://SITE/b">> -> "https://SITE/b"
      [] href \in {<<"https://other/x">>, <<"//other/x">>} -> "https://other/x"
      [] href = <<"mailto:me">> -> "mailto:me"
\* _host (lines 48-49): urlsplit(url).netloc.lower()
_host(url) ==
    CASE url \in {"https://site/page", "https://site/a", "https://SITE/b"}
            -> "site"
      [] url = "https://other/x" -> "other"
      [] url = "mailto:me" -> ""
\* mutant: nothing is dropped
NormListKeepsAll(urls) == urls
\* _norm_list (lines 165-172)
_norm_list(urls) ==
    LET Kept(i) == /\ urls[i] # ""
                   /\ \A j \in 1..(i - 1) : urls[j] # urls[i]
        RECURSIVE Out(_)
        Out(i) == IF i = 0 THEN <<>>
                  ELSE IF Kept(i) THEN Append(Out(i - 1), urls[i])
                  ELSE Out(i - 1)
    IN Out(Len(urls))
\* parse_html lines 316-331: the links. An anchor has its href by pieces,
\* white-space characters and runs of other characters, and its rel as
\* " ".join(rel).
ParseLinks(anchors) ==
    LET base_host == _host("https://site/page")
        Linked(a) == Strip(a.href) # <<>>
        as == SelectSeq(anchors, Linked)
        absu(a) == urljoin(Strip(a.href))
        Internal(a) == _host(absu(a)) = base_host \/ _host(absu(a)) = ""
        External(a) == ~Internal(a)
        NoFollow(a) == a.rel \in {"nofollow", "NoFollow ugc"}
        Urls(list) == [i \in 1..Len(list) |-> absu(list[i])]
    IN [internal_links |-> _norm_list(Urls(SelectSeq(as, Internal))),
        external_links |-> _norm_list(Urls(SelectSeq(as, External))),
        nofollow_links |-> _norm_list(Urls(SelectSeq(as, NoFollow)))]
ParseLinksReturns == Returns("parse_html_links", ParseLinks(pure.arg))

\* robots_and_sitemaps (lines 456-498), the disallow check. fetched is how
\* the request for robots.txt ended: "raise", or the status of the answer;
\* a line of the answer is <<field, value>>, the text before the colon and
\* the stripped text after it, by its characters; path is
\* urlsplit(url).path. The third branch of the loop (lines 492-493) is
\* never taken: its test repeats that of the first.
robots_and_sitemaps(path, fetched, lines) ==
    LET txt == IF fetched = "200" THEN lines ELSE <<>>
        RECURSIVE Disallows(_, _)
        \* the disallows gathered from line k on, ua_any as given
        Disallows(k, ua_any) ==
            IF k > Len(txt) THEN <<>>
            ELSE IF txt[k][1] = "user-agent"
                 THEN Disallows(k + 1, txt[k][2] = <<"*">>)
            ELSE IF ua_any /\ txt[k][1] = "disallow"
                 THEN <<OrElse(txt[k][2], <<"/">>)>> \o Disallows(k + 1, ua_any)
            ELSE Disallows(k + 1, ua_any)
        disallows == Disallows(1, FALSE)
        scanned == OrElse(path, <<"/">>)
        StartsWith(d) == /\ Len(d) <= Len(scanned)
                         /\ SubSeq(scanned, 1, Len(d)) = d
    IN [blocked_by_robots |->
            IF txt = <<>> THEN "null"
            ELSE IF \E k \in 1..Len(disallows) :
                        disallows[k] # <<>> /\ StartsWith(disallows[k])
                 THEN "true" ELSE "false"]
RobotsReturns ==
    Returns("robots_and_sitemaps",
            robots_and_sitemaps(pure.arg.path, pure.arg.fetched,
                                pure.arg.lines))

KeywordDensityReturns ==
    Returns("keyword_density", keyword_density(pure.arg.text, pure.arg.top_n))

\* ------------------------------------------------------------------ Init
DefaultOpts ==
    [wait |-> W_networkidle, settle |-> TRUE, shot |-> FALSE, arg |-> NoneTok]
\* str.upper() on one character, and on a str
UpperChar(c) ==
    IF \E i \in 1..Len(LowerCase) : LowerCase[i] = c
    THEN UpperCase[CHOOSE i \in 1..Len(LowerCase) : LowerCase[i] = c]
    ELSE c
Upper(s) == [i \in 1..Len(s) |-> UpperChar(s[i])]
\* every name the normalizer knows, with the mode it stands for: the keys
\* of _WAIT_ALIASES and the modes of _ALLOWED_WAITS themselves
WaitNames == _WAIT_ALIASES \cup {<<m, m>> : m \in _ALLOWED_WAITS}
\* spellings of a name: as it is, in capitals, capitalized, with whitespace
\* before it, after it and around it
Variants(k) ==
    { k, Upper(k), <<UpperChar(Head(k))>> \o Tail(k), <<" ">> \o k,
      Upper(k) \o <<"\n">>, <<"\t", " ">> \o k \o <<" ", "\n">> }
\* str values that are no name of a wait mode in any spelling
UnknownTokens ==
    { <<"b", "o", "g", "u", "s">>, W_loaded, W_network, W_call,
      W_load \o <<" ">> \o W_idle, <<" ">> \o W_document \o <<" ">> }
\* str values that are empty once stripped
BlankTokens == { <<>>, <<" ">>, <<"\t", "\n">> }
\* wait_until arguments fetch_rendered is called with
ArgTokens ==
    {NoneTok} \cup BlankTokens \cup UnknownTokens
        \cup UNION {Variants(k[1]) : k \in WaitNames}
\* values of PLAYWRIGHT_WAIT_UNTIL; unset reads as "networkidle" (line 118)
EnvTokens == { W_networkidle, W_load, W_dom, <<"j", "u", "n", "k">>, <<>> }

InitCommon ==
    /\ started = FALSE
    /\ browser = 0
    /\ playwright = 0
    /\ alive = {}
    /\ leaked = [b \in BrowserIds |-> 0]
    /\ semFree = max_contexts
    /\ waiters = <<>>
    /\ caller = [t \in Tasks |-> "none"]
    /\ ctxB = [t \in Tasks |-> 0]
    /\ exc = [t \in Tasks |-> "none"]
    /\ held = [p \in Procs |-> 0]
    /\ result = [p \in Procs |-> "none"]
    /\ opts = [t \in Tasks |-> DefaultOpts]
    /\ nav = [t \in Tasks |-> "none"]
    /\ gotoMode = [t \in Tasks |-> "none"]
    /\ host = [t \in Tasks |-> "none"]
    /\ target = [t \in Tasks |-> "none"]
    /\ phase = [t \in Tasks |-> "none"]
    /\ doc = [t \in Tasks |-> NoDoc]
    /\ response = [t \in Tasks |-> NoResponse]
    /\ now = 1
    /\ cooldown = <<>>

InitPool ==
    /\ InitCommon
    /\ pure = Called("none", <<>>)
    /\ pc = [p \in Procs |-> "idle"]
    /\ envWait = W_networkidle
    /\ fastScan = TRUE
    /\ psiKey = FALSE

InitRender ==
    /\ InitCommon
    /\ pure = Called("none", <<>>)
    /\ pc = [p \in Procs |-> IF p = 1 THEN "idle" ELSE "off"]
    /\ envWait \in EnvTokens
    /\ fastScan = TRUE
    /\ psiKey = FALSE

InitScan ==
    /\ InitCommon
    /\ pure = Called("none", <<>>)
    /\ pc = [p \in Procs |-> IF p = Ctl THEN "off" ELSE "idle"]
    /\ envWait = W_networkidle
    /\ fastScan \in BOOLEAN
    /\ psiKey = ~fastScan

\* one call of one function, its arguments drawn from the bounded inputs
InitPure ==
    /\ InitCommon
    /\ envWait = W_networkidle
    /\ fastScan \in BOOLEAN
    /\ psiKey = FALSE
    /\ \/ \* analyze: what a scan meets: the primary page's robots meta and
          \* header and its status, whether it looks blocked and names an
          \* AMP URL, and the AMP page
          \E meta \in {"", "index, follow", "noindex", "NOINDEX, nofollow"},
             header \in {"", "noindex"}, status \in {0, 200, 404},
             waf \in BOOLEAN, amp_url \in BOOLEAN, body2 \in BOOLEAN,
             amp_meta \in {"", "noindex"} :
              pure = Called("analyze",
                            [meta |-> meta, header |-> header,
                             status |-> status, waf |-> waf,
                             amp_url |-> amp_url, body2 |-> body2,
                             amp_meta |-> amp_meta])
       \/ \* keyword_density: texts of up to MaxWords runs of letters: three
          \* words, one of them capitalised, a stopword in capitals and a
          \* run of two letters
          \E n \in 0..MaxWords, top_n \in {2, 10} :
            \E text \in [1..n -> {<<"S", "e", "o">>, <<"w", "e", "b">>,
                                  <<"t", "a", "g">>, <<"T", "h", "e">>,
                                  <<"u", "x">>}] :
              pure = Called("keyword_density",
                            [text |-> text, top_n |-> top_n])
       \/ \* validate_jsonld: lists of up to MaxItems entries: something
          \* that is no dict, or a dict with a type and with name and
          \* startDate absent, blank, a text or null
          LET Types == {<<"absent">>, <<"str", "Event">>,
                        <<"list", "Event", "Thing">>, <<"str", "Recipe">>}
              Fields == UNION {[D -> {<<" ">>, <<"R">>, NoneTok}] :
                                 D \in SUBSET {"name", "startDate"}}
              Entries == {[dict |-> TRUE, type |-> ty, fields |-> f] :
                            ty \in Types, f \in Fields}
                         \cup {[dict |-> FALSE, type |-> <<"absent">>,
                                 fields |-> <<>>]}
          IN \E n \in 0..MaxItems : \E jsonld_any \in [1..n -> Entries] :
                pure = Called("validate_jsonld", jsonld_any)
       \/ \* _check_urls as analyze calls it (lines 624-628), the limit 4
          \* if FAST_SCAN else 10: up to MaxUrls links, on
          \* servers that answer HEAD, refuse it and answer GET, refuse
          \* both, or drop the connection at once or on the GET
          \E n \in 0..MaxUrls :
            \E urls \in [1..n -> {<<"200", "200">>, <<"405", "200">>,
                                  <<"403", "403">>, <<"raise", "raise">>,
                                  <<"400", "raise">>}] :
              pure = Called("_check_urls",
                            [urls |-> urls,
                             limit |-> IF fastScan THEN 4 ELSE 10])
       \/ \* parse_html, the images: up to MaxImgRuns runs of 1, 4, 801 or
          \* 3203 elements without alt, with a blank one or with a text
          \E n \in 0..MaxImgRuns :
            \E imgs \in [1..n -> {NoneTok, <<" ">>, <<"R">>}
                                  \X {1, 4, 801, 3203}] :
              pure = Called("parse_html_images", imgs)
       \/ \* parse_html, the links: up to MaxAnchors anchors, the href
          \* empty, blank, a path, a relative or a full or a scheme-relative
          \* URL or a mailto: address, with or without rel nofollow
          \E n \in 0..MaxAnchors :
            \E hrefs \in [1..n -> {<<>>, <<" ">>, <<"/a">>, <<" ", "a", " ">>,
                                   <<"https://SITE/b">>, <<"https://other/x">>,
                                   <<"//other/x">>, <<"mailto:me">>}],
               rels \in [1..n -> {"", "NoFollow ugc"}] :
              pure = Called("parse_html_links",
                            [i \in 1..n |-> [href |-> hrefs[i],
                                             rel |-> rels[i]]])
       \/ \* robots_and_sitemaps for the paths "" and /p/a: the request
          \* raises, is answered 500, or is answered 200 with up to
          \* MaxLines lines: groups for * and for another agent, Disallow
          \* lines with no path, with /p and with /q
          \E path \in {<<>>, <<"/", "p", "/", "a">>},
             fetched \in {"raise", "500", "200"}, n \in 0..MaxLines :
            \E lines \in [1..n -> {<<"user-agent", <<"*">>>>,
                                   <<"user-agent", <<"b", "o", "t">>>>,
                                   <<"disallow", <<>>>>,
                                   <<"disallow", <<"/", "p">>>>,
                                   <<"disallow", <<"/", "q">>>>}] :
              /\ fetched # "200" => n = 0
              /\ pure = Called("robots_and_sitemaps",
                               [path |-> path, fetched |-> fetched,
                                lines |-> lines])
    /\ pure.fn # "_check_urls" => fastScan
    /\ pc = [p \in Procs |-> "off"]

InitApi ==
    /\ InitCommon
    /\ pure = Called("none", <<>>)
    /\ pc = [p \in Procs |-> IF p = 1 THEN "idle" ELSE "off"]
    /\ envWait = W_networkidle
    /\ fastScan \in BOOLEAN
    /\ psiKey \in BOOLEAN

\* ------------------------------------------------------------ WAF cooldown
\* _WAF_COOLDOWN.get(h, 0)
CooldownGet(h) == IF h \in DOMAIN cooldown THEN cooldown[h] ELSE 0
\* mutant: the table is never consulted
InCooldownNever(h) == FALSE
_in_cooldown(h) == CooldownGet(h) > now
\* mutant: the entry holds the time of the call, without the duration
EnterCooldownNoDuration(h) ==
    [x \in (DOMAIN cooldown) \cup {h} |-> IF x = h THEN now ELSE cooldown[x]]
\* mutant: the table is made anew with the one entry
EnterCooldownAlone(h) == [x \in {h} |-> now + WAF_COOLDOWN_SEC]
\* _WAF_COOLDOWN[h] = time.time() + WAF_COOLDOWN_SEC
_enter_cooldown(h) ==
    [x \in (DOMAIN cooldown) \cup {h} |->
        IF x = h THEN now + WAF_COOLDOWN_SEC ELSE cooldown[x]]

\* ------------------------------------------------------------ call frames
\* The locals of t's call after a step: o, nv, gm, tg, ph while the call
\* goes on, nothing once it has ended (pc' is set before this is read).
Locals(t, o, nv, gm, tg, ph) ==
    LET gone == pc'[t] = "idle" IN
    /\ opts' = [opts EXCEPT ![t] = IF gone THEN DefaultOpts ELSE o]
    /\ nav' = [nav EXCEPT ![t] = IF gone THEN "none" ELSE nv]
    /\ gotoMode' = [gotoMode EXCEPT ![t] = IF gone THEN "none" ELSE gm]
    /\ target' = [target EXCEPT ![t] = IF gone THEN "none" ELSE tg]
    /\ phase' = [phase EXCEPT ![t] = IF gone THEN "none" ELSE ph]
KeepFrame(t) == Locals(t, opts[t], nav[t], gotoMode[t], target[t], phase[t])
\* The result dict of t's analyze after a step is d; when the call has
\* ended it has been returned (or given up) and the handler has saved it
\* and answered.  The dict is followed for the calls the HTTP handlers
\* make; of any other call only how it ended is kept (result).
PayloadFor(t, who, d) ==
    IF who # "http" THEN UNCHANGED <<doc, response>>
    ELSE /\ doc' = [doc EXCEPT ![t] = IF pc'[t] = "idle" THEN NoDoc ELSE d]
         /\ IF pc'[t] # "idle"
            THEN response' = [response EXCEPT ![t] = NoResponse]
            ELSE \E saved \in SaveOutcomes :
                    response' = [response EXCEPT ![t] =
                                    HandlerResponse(result'[t], d, saved)]
Payload(t, d) == PayloadFor(t, caller[t], d)
KeepLocals(p) ==
    IF p \in Tasks
    THEN KeepFrame(p) /\ Payload(p, doc[p])
    ELSE UNCHANGED <<localVars, response>>

\* ----------------------------------------------------------- entry points
\* a caller enters "async with _POOL.page(...)" with a body of its own
CallPage(t) ==
    /\ pc[t] = "idle"
    /\ started \/ LaunchBudget
    /\ caller' = [caller EXCEPT ![t] = "page"]
    /\ PageEnter(t, semFree, pc, [result EXCEPT ![t] = "none"], ctxB)
    /\ KeepFrame(t)
    /\ PayloadFor(t, "page", NoDoc)
    /\ UNCHANGED <<poolVars, leaked, exc, held, envVars, host, now, cooldown>>

\* fetch_rendered(url, wait_until=arg, wait_ms_after=.., screenshot=..) is
\* called (lines 105-125)
CallFetchRendered(t) ==
    /\ pc[t] = "idle"
    /\ started \/ LaunchBudget
    /\ caller' = [caller EXCEPT ![t] = "render"]
    /\ PageEnter(t, semFree, pc, [result EXCEPT ![t] = "none"], ctxB)
    /\ \E arg \in ArgTokens, settle \in BOOLEAN, shot \in BOOLEAN :
          Locals(t, [wait |-> WaitUntilOf(arg, envWait), settle |-> settle,
                     shot |-> shot, arg |-> arg], "none", "none", "none", "none")
    /\ PayloadFor(t, "render", NoDoc)
    /\ UNCHANGED <<poolVars, leaked, exc, held, envVars, host, now, cooldown>>

\* seo.fetch(url) calls fetch_rendered with the module's settings (lines 131-139)
FetchOpts ==
    [wait |-> WaitUntilOf(envWait, envWait), settle |-> TRUE, shot |-> FALSE,
     arg |-> envWait]

\* analyze(url) is called by who (lines 564-574)
CallAnalyzeAs(t, who) ==
    /\ pc[t] = "idle"
    /\ started \/ LaunchBudget
    /\ \E h \in Hosts :
          /\ host' = [host EXCEPT ![t] = h]
          /\ caller' = [caller EXCEPT ![t] = who]
          /\ IF _in_cooldown(h)
             THEN /\ result' = [result EXCEPT ![t] = "cooldown"]
                  /\ UNCHANGED <<pc, semVars, ctxB>>
                  /\ KeepFrame(t)
                  /\ PayloadFor(t, who, CooldownDoc)
             ELSE /\ PageEnter(t, semFree, pc, [result EXCEPT ![t] = "none"], ctxB)
                  /\ Locals(t, FetchOpts, "none", "none", h, "primary")
                  /\ PayloadFor(t, who, NoDoc)
    /\ UNCHANGED <<poolVars, leaked, exc, held, envVars, now, cooldown>>
\* a caller of seo.analyze
CallAnalyze(t) == CallAnalyzeAs(t, "scan")
\* a request to /analyze or /api/analyze: the handler awaits analyze_url(norm)
\* (main.py lines 201-203, 230-232)
CallHttpAnalyze(t) == CallAnalyzeAs(t, "http")

\* --------------------------------------------------- _BrowserPool.start
\* a direct call of _POOL.start() (lines 66-69)
CtlStart ==
    /\ pc[Ctl] = "idle"
    /\ IF started
       THEN /\ result' = [result EXCEPT ![Ctl] = "start_noop"]
            /\ pc' = pc
       ELSE /\ LaunchBudget
            /\ result' = [result EXCEPT ![Ctl] = "none"]
            /\ pc' = [pc EXCEPT ![Ctl] = "start_pw"]
    /\ UNCHANGED <<poolVars, leaked, semVars, caller, ctxB, exc, held, envVars,
                   localVars, response, host, now, cooldown>>

\* await async_playwright().start() returns or raises (line 69)
StartPwDone(p) ==
    /\ pc[p] = "start_pw"
    /\ \E ok \in BOOLEAN :
          IF ok
          THEN /\ pc' = [pc EXCEPT ![p] = "start_launch"]
               /\ result' = result
          ELSE /\ pc' = [pc EXCEPT ![p] = "idle"]
               /\ result' = [result EXCEPT ![p] = "start_error"]
    /\ KeepLocals(p)
    /\ UNCHANGED <<poolVars, leaked, semVars, caller, ctxB, exc, held, envVars,
                   host, now, cooldown>>

\* await pw.chromium.launch() returns or raises, then lines 71-73; a task
\* that came through page() goes on to the semaphore (line 88)
StartLaunchDone(p) ==
    /\ pc[p] = "start_launch"
    /\ \E ok \in BOOLEAN :
          IF ok
          THEN LET id == NewId IN
               /\ alive' = alive \cup {id}
               /\ playwright' = id
               /\ browser' = id
               /\ started' = TRUE
               /\ IF p = Ctl
                  THEN /\ pc' = [pc EXCEPT ![p] = "idle"]
                       /\ result' = [result EXCEPT ![p] = "start_done"]
                       /\ UNCHANGED <<semVars, ctxB>>
                  ELSE EnterSem(p, id, semFree, pc, result, ctxB)
          ELSE /\ pc' = [pc EXCEPT ![p] = "idle"]
               /\ result' = [result EXCEPT ![p] = "start_error"]
               /\ UNCHANGED <<poolVars, semVars, ctxB>>
    /\ KeepLocals(p)
    /\ UNCHANGED <<leaked, caller, exc, held, envVars, host, now, cooldown>>

\* ---------------------------------------------------- _BrowserPool.page
\* wait_until of page.goto at line 127
PrimaryGotoMode(t) == opts[t].wait
\* wait_until of page.goto at line 130
RetryGotoMode == W_networkidle

\* a waiter whose future was set resumes inside acquire() (line 88)
SemResume(t) ==
    /\ pc[t] = "sem_granted"
    /\ NewContextCall(t, browser, semFree, RemoveWaiter(t), pc, result, ctxB)
    /\ KeepLocals(t)
    /\ UNCHANGED <<poolVars, leaked, caller, exc, held, envVars, host, now,
                   cooldown>>

\* await self._browser.new_context(...) returns or raises (line 89)
NewContextDone(t) ==
    /\ pc[t] = "new_context"
    /\ \E ok \in BOOLEAN :
          IF ok /\ ctxB[t] \in alive
          THEN /\ pc' = [pc EXCEPT ![t] = "new_page"]
               /\ UNCHANGED <<semFree, result, ctxB>>
          ELSE LET s == SemRelease(semFree, pc, TRUE) IN
               /\ semFree' = s.free
               /\ pc' = [s.pc EXCEPT ![t] = "idle"]
               /\ result' = [result EXCEPT ![t] = "context_error"]
               /\ ctxB' = [ctxB EXCEPT ![t] = 0]
    /\ KeepLocals(t)
    /\ UNCHANGED <<poolVars, leaked, waiters, caller, exc, held, envVars, host,
                   now, cooldown>>

\* await context.new_page() returns or raises (line 90): the call is outside
\* the try/finally, so when it raises nobody closes the context.  When it
\* returns, the body runs to its first await (line 94; goto, line 127)
NewPageDone(t) ==
    /\ pc[t] = "new_page"
    /\ \E ok \in BOOLEAN :
          IF ok /\ ctxB[t] \in alive
          THEN /\ pc' = [pc EXCEPT ![t] =
                            IF caller[t] = "page" THEN "body" ELSE "goto1"]
               /\ Locals(t, opts[t], nav[t],
                         IF caller[t] = "page" THEN "none" ELSE PrimaryGotoMode(t),
                         target[t], phase[t])
               /\ Payload(t, doc[t])
               /\ UNCHANGED <<semFree, result, ctxB, leaked>>
          ELSE LET s == SemRelease(semFree, pc, TRUE) IN
               /\ ctxB[t] \in alive => SumLeaked(BrowserIds) < MaxLeaks
               /\ semFree' = s.free
               /\ pc' = [s.pc EXCEPT ![t] = "idle"]
               /\ result' = [result EXCEPT ![t] = "page_error"]
               /\ leaked' = IF ctxB[t] \in alive
                            THEN [leaked EXCEPT ![ctxB[t]] = @ + 1]
                            ELSE leaked
               /\ ctxB' = [ctxB EXCEPT ![t] = 0]
               /\ KeepLocals(t)
    /\ UNCHANGED <<poolVars, waiters, caller, exc, held, envVars, host, now,
                   cooldown>>

\* the body of a caller of page() ends or raises; either way the finally
\* block starts context.close() (line 96)
BodyDone(t) ==
    /\ pc[t] = "body"
    /\ \E ok \in BOOLEAN :
          exc' = [exc EXCEPT ![t] = IF ok THEN "none" ELSE "body_error"]
    /\ pc' = [pc EXCEPT ![t] = "ctx_close"]
    /\ UNCHANGED <<poolVars, leaked, semVars, caller, ctxB, held, result,
                   envVars, localVars, response, host, now, cooldown>>

\* -------------------------------------------------------- fetch_rendered
\* what a step of the body leaves alone
bodyFrame == <<poolVars, leaked, semVars, caller, ctxB, held, result, envVars,
               opts, target, phase, doc, response, host, now, cooldown>>
\* an operation on the page can succeed only while its browser runs
PageAlive(t) == ctxB[t] \in alive
\* an exception leaves the body: the finally block starts context.close()
BodyRaise(t, kind) ==
    /\ pc' = [pc EXCEPT ![t] = "ctx_close"]
    /\ exc' = [exc EXCEPT ![t] = kind]
BodyGoes(t, next) ==
    /\ pc' = [pc EXCEPT ![t] = next]
    /\ exc' = exc
\* after a goto that answered: the nudges (line 133).  What follows acts on
\* the task's own page only; for a scan it is taken as one step
AfterGoto(t) == IF caller[t] \in ScanCallers THEN "rest" ELSE "wheel1"

\* mutant: no except clause around the first goto
Goto1DoneNoRetry(t) ==
    /\ pc[t] = "goto1"
    /\ \E ok \in BOOLEAN :
          IF ok /\ PageAlive(t)
          THEN /\ nav' = [nav EXCEPT ![t] = "first_ok"]
               /\ BodyGoes(t, AfterGoto(t))
          ELSE /\ nav' = [nav EXCEPT ![t] = "first_failed"]
               /\ BodyRaise(t, "nav_error")
    /\ UNCHANGED <<bodyFrame, gotoMode>>

\* await page.goto(url, wait_until=wait_until) returns or raises (lines
\* 126-130): on any exception goto is issued again with "networkidle"
Goto1Done(t) ==
    /\ pc[t] = "goto1"
    /\ \E ok \in BOOLEAN :
          IF ok /\ PageAlive(t)
          THEN /\ nav' = [nav EXCEPT ![t] = "first_ok"]
               /\ gotoMode' = gotoMode
               /\ BodyGoes(t, AfterGoto(t))
          ELSE /\ nav' = [nav EXCEPT ![t] = "first_failed"]
               /\ gotoMode' = [gotoMode EXCEPT ![t] = RetryGotoMode]
               /\ BodyGoes(t, "goto2")
    /\ UNCHANGED bodyFrame

\* the retry's await page.goto returns or raises (line 130); nothing catches
\* what it raises
Goto2Done(t) ==
    /\ pc[t] = "goto2"
    /\ \E ok \in BOOLEAN :
          IF ok /\ PageAlive(t)
          THEN /\ nav' = [nav EXCEPT ![t] = "retry_ok"]
               /\ BodyGoes(t, AfterGoto(t))
          ELSE /\ nav' = [nav EXCEPT ![t] = "both_failed"]
               /\ BodyRaise(t, "nav_error")
    /\ UNCHANGED <<bodyFrame, gotoMode>>

\* await page.mouse.wheel(0, 1200) returns or raises (line 134)
WheelDone(t) ==
    /\ pc[t] \in {"wheel1", "wheel2", "wheel3"}
    /\ \E ok \in BOOLEAN :
          IF ok /\ PageAlive(t)
          THEN BodyGoes(t, CASE pc[t] = "wheel1" -> "sleep1"
                             [] pc[t] = "wheel2" -> "sleep2"
                             [] pc[t] = "wheel3" -> "sleep3")
          ELSE BodyRaise(t, "body_error")
    /\ UNCHANGED <<bodyFrame, nav, gotoMode>>

\* mutant: the loop ends after two nudges
SleepDoneTwoNudges(t) ==
    /\ pc[t] \in {"sleep1", "sleep2", "sleep3"}
    /\ BodyGoes(t, CASE pc[t] = "sleep1" -> "wheel2"
                     [] OTHER -> IF opts[t].settle THEN "settle"
                                 ELSE "selector")
    /\ UNCHANGED <<bodyFrame, nav, gotoMode>>

\* await asyncio.sleep(0.2) is over (line 135); after the third, line 137
SleepDone(t) ==
    /\ pc[t] \in {"sleep1", "sleep2", "sleep3"}
    /\ BodyGoes(t, CASE pc[t] = "sleep1" -> "wheel2"
                     [] pc[t] = "sleep2" -> "wheel3"
                     [] pc[t] = "sleep3" ->
                          IF opts[t].settle THEN "settle" ELSE "selector")
    /\ UNCHANGED <<bodyFrame, nav, gotoMode>>

\* await asyncio.sleep(wait_ms_after / 1000) is over (line 138)
SettleDone(t) ==
    /\ pc[t] = "settle"
    /\ BodyGoes(t, "selector")
    /\ UNCHANGED <<bodyFrame, nav, gotoMode>>

\* await page.wait_for_selector(...) returns or raises; the exception is
\* passed over (lines 141-146)
SelectorDone(t) ==
    /\ pc[t] = "selector"
    /\ BodyGoes(t, "content")
    /\ UNCHANGED <<bodyFrame, nav, gotoMode>>

\* after the headers: the screenshot if asked for, else the block is left
\* (lines 157-160)
AfterHeaders(t) == IF opts[t].shot THEN "screenshot" ELSE "ctx_close"

\* await page.content() returns or raises (lines 146-153); resp may be None
ContentDone(t) ==
    /\ pc[t] = "content"
    /\ \E ok \in BOOLEAN, resp \in BOOLEAN :
          IF ok /\ PageAlive(t)
          THEN BodyGoes(t, IF resp THEN "headers" ELSE AfterHeaders(t))
          ELSE BodyRaise(t, "body_error")
    /\ UNCHANGED <<bodyFrame, nav, gotoMode>>

\* await resp.all_headers() returns or raises; the exception is caught
\* (lines 151-155)
HeadersDone(t) ==
    /\ pc[t] = "headers"
    /\ BodyGoes(t, AfterHeaders(t))
    /\ UNCHANGED <<bodyFrame, nav, gotoMode>>

\* await page.screenshot(...) returns or raises (line 160)
ScreenshotDone(t) ==
    /\ pc[t] = "screenshot"
    /\ \E ok \in BOOLEAN :
          IF ok /\ PageAlive(t)
          THEN BodyGoes(t, "ctx_close")
          ELSE BodyRaise(t, "body_error")
    /\ UNCHANGED <<bodyFrame, nav, gotoMode>>

\* lines 132-160 of a scan's render run to the end of the block, or one
\* of wheel, content raises (seo.fetch never asks for a screenshot)
RestDone(t) ==
    /\ pc[t] = "rest"
    /\ \E ok \in BOOLEAN :
          IF ok /\ PageAlive(t)
          THEN BodyGoes(t, "ctx_close")
          ELSE BodyRaise(t, "body_error")
    /\ UNCHANGED <<bodyFrame, nav, gotoMode>>

\* how the page() block ends for its caller: what was raised, if anything.
\* An exception of context.close() replaces the one in flight, which stays
\* its __context__
ExitKind(e, closed) ==
    IF closed THEN (IF e = "none" THEN "ok" ELSE e)
    ELSE IF e = "none" THEN "close_error"
    ELSE IF e = "nav_error" THEN "nav_error_close_error"
    ELSE "body_error_close_error"

\* await context.close() returns or raises (line 96; a close() that raises
\* found the context gone), the with block is left and the slot released
\* (line 88); an exception goes up through fetch_rendered, fetch and analyze,
\* none of which catches it; without one, a caller of page() or of
\* fetch_rendered has its result (lines 162-171)
CtxCloseDone(t) ==
    /\ pc[t] = "ctx_close"
    /\ \E ok \in BOOLEAN :
          LET raised == ~ok \/ exc[t] # "none"
              s == SemRelease(semFree, pc, raised)
          IN /\ raised \/ caller[t] \in {"page", "render"}
             /\ semFree' = s.free
             /\ pc' = [s.pc EXCEPT ![t] = "idle"]
             /\ result' = [result EXCEPT ![t] = ExitKind(exc[t], ok)]
    /\ ctxB' = [ctxB EXCEPT ![t] = 0]
    /\ exc' = [exc EXCEPT ![t] = "none"]
    /\ KeepLocals(t)
    /\ UNCHANGED <<poolVars, leaked, waiters, caller, held, envVars, host, now,
                   cooldown>>

\* ---------------------------------------------------------------- analyze
\* mutant: the AMP URL is rendered inside the primary render's page block
ScanPrimaryKeepsSlot(t) ==
    /\ pc[t] = "ctx_close"
    /\ caller[t] \in ScanCallers
    /\ phase[t] = "primary"
    /\ exc[t] = "none"
    /\ LET s == SemRelease(semFree, pc, FALSE)
           c == [ctxB EXCEPT ![t] = 0]
       IN \E waf \in BOOLEAN, amp \in {"none"} \cup Hosts :
             IF waf /\ amp # "none"
             THEN /\ started \/ LaunchBudget
                  /\ PageEnter(t, semFree, pc,
                               [result EXCEPT ![t] = "waf_amp"], ctxB)
                  /\ Locals(t, FetchOpts, "none", "none", amp, "amp")
                  /\ Payload(t, PrimaryDoc)
             ELSE /\ semFree' = s.free
                  /\ pc' = [s.pc EXCEPT ![t] = "robots"]
                  /\ result' = [result EXCEPT ![t] =
                                   IF waf THEN "waf_no_amp" ELSE "plain"]
                  /\ ctxB' = c
                  /\ waiters' = waiters
                  /\ Locals(t, DefaultOpts, "none", "none", "none", "aux")
                  /\ Payload(t, PrimaryDoc)
    /\ UNCHANGED <<poolVars, leaked, caller, exc, held, envVars, host, now,
                   cooldown>>

\* the primary render of analyze returns (line 574): the result is parsed
\* and, if the page looks like a WAF block and names an AMP URL, the AMP URL
\* is rendered (lines 575-602), else the robots fetch starts (line 618)
ScanPrimaryRendered(t) ==
    /\ pc[t] = "ctx_close"
    /\ caller[t] \in ScanCallers
    /\ phase[t] = "primary"
    /\ exc[t] = "none"
    /\ LET s == SemRelease(semFree, pc, FALSE)
           c == [ctxB EXCEPT ![t] = 0]
       IN \E waf \in BOOLEAN, amp \in {"none"} \cup Hosts :
             IF waf /\ amp # "none"
             THEN /\ started \/ LaunchBudget
                  /\ PageEnter(t, s.free, s.pc,
                               [result EXCEPT ![t] = "waf_amp"], c)
                  /\ Locals(t, FetchOpts, "none", "none", amp, "amp")
                  /\ Payload(t, PrimaryDoc)
             ELSE /\ semFree' = s.free
                  /\ pc' = [s.pc EXCEPT ![t] = "robots"]
                  /\ result' = [result EXCEPT ![t] =
                                   IF waf THEN "waf_no_amp" ELSE "plain"]
                  /\ ctxB' = c
                  /\ waiters' = waiters
                  /\ Locals(t, DefaultOpts, "none", "none", "none", "aux")
                  /\ Payload(t, PrimaryDoc)
    /\ UNCHANGED <<poolVars, leaked, caller, exc, held, envVars, host, now,
                   cooldown>>

\* the AMP render of analyze returns (lines 602-614): with a body the AMP
\* signals are taken over, with an empty body the host enters cooldown; then
\* the robots fetch starts (line 618)
ScanAmpRendered(t) ==
    /\ pc[t] = "ctx_close"
    /\ caller[t] \in ScanCallers
    /\ phase[t] = "amp"
    /\ exc[t] = "none"
    /\ LET s == SemRelease(semFree, pc, FALSE)
       IN /\ semFree' = s.free
          /\ pc' = [s.pc EXCEPT ![t] = "robots"]
    /\ ctxB' = [ctxB EXCEPT ![t] = 0]
    /\ \E body2 \in BOOLEAN :
          IF body2
          THEN /\ result' = [result EXCEPT ![t] = "amp_analyzed"]
               /\ cooldown' = cooldown
               /\ Payload(t, AmpOverwrite(doc[t], ParseHtml("amp")))
          ELSE /\ result' = [result EXCEPT ![t] = "amp_blocked"]
               /\ cooldown' = _enter_cooldown(host[t])
               /\ Payload(t, AmpBlockedDoc(doc[t]))
    /\ Locals(t, DefaultOpts, "none", "none", "none", "aux")
    /\ UNCHANGED <<poolVars, leaked, waiters, caller, exc, held, envVars, host,
                   now>>

scanFrame == <<poolVars, leaked, semVars, caller, ctxB, exc, held, result,
               envVars, host, now, cooldown>>
\* _fetch_psi awaits only when PSI is on (line 532); else analyze returns
AfterLinks == IF fastScan \/ ~psiKey THEN "idle" ELSE "psi_mobile"
\* an auxiliary step of t is through: the dict is d and next comes next
AuxGoes(t, next, d) ==
    /\ pc' = [pc EXCEPT ![t] = next]
    /\ UNCHANGED scanFrame
    /\ KeepFrame(t)
    /\ Payload(t, d)
\* mutant: no except clause around the link checks
LinksUncaught(t, d0, how) ==
    IF how = "empty"
    THEN /\ pc' = [pc EXCEPT ![t] = "idle"]
         /\ result' = [result EXCEPT ![t] = "aux_error"]
         /\ UNCHANGED <<poolVars, leaked, semVars, caller, ctxB, exc, held,
                        envVars, host, now, cooldown>>
         /\ KeepFrame(t)
         /\ Payload(t, d0)
    ELSE LET d == Put(d0, "link_checks", how)
         IN AuxGoes(t, AfterLinks,
                    IF AfterLinks = "idle"
                    THEN Put(d, "pagespeed", "disabled") ELSE d)
\* result["link_checks"] is set (lines 626-633); with PSI off _fetch_psi
\* answers at once and analyze returns (lines 532-533, 636-644)
LinksThrough(t, d0, how) ==
    LET d == Put(d0, "link_checks", how)
    IN AuxGoes(t, AfterLinks,
               IF AfterLinks = "idle" THEN Put(d, "pagespeed", "disabled")
               ELSE d)

\* robots_and_sitemaps's await client.get returns or raises, the exception
\* is caught (lines 465-469, 617-620); then the link checks begin: a list
\* without entries is passed over by _check_urls (lines 504-507)
RobotsDone(t) ==
    /\ pc[t] = "robots"
    /\ \E fetched \in BOOLEAN, next \in {"links_int", "links_ext", "none"} :
          LET d == Put(doc[t], "crawl_checks",
                       IF fetched THEN "robots" ELSE "empty")
          IN IF next = "none" THEN LinksThrough(t, d, "checked")
             ELSE AuxGoes(t, next, d)

\* _check_urls on the internal links is through or raises (line 627); what
\* it raises skips the external links (lines 632-633)
LinksIntDone(t) ==
    /\ pc[t] = "links_int"
    /\ \E ok \in BOOLEAN, more \in BOOLEAN :
          IF ~ok THEN LinksThrough(t, doc[t], "empty")
          ELSE IF more THEN AuxGoes(t, "links_ext", doc[t])
          ELSE LinksThrough(t, doc[t], "checked")

\* _check_urls on the external links is through or raises (lines 628-633)
LinksExtDone(t) ==
    /\ pc[t] = "links_ext"
    /\ \E ok \in BOOLEAN :
          LinksThrough(t, doc[t], IF ok THEN "checked" ELSE "empty")

\* _fetch_psi's one("mobile") is through (line 559)
PsiMobileDone(t) ==
    /\ pc[t] = "psi_mobile"
    /\ AuxGoes(t, "psi_desktop", doc[t])

\* _fetch_psi's one("desktop") is through: each of the two gave a score or
\* an error entry; analyze returns (lines 538-559, 636-644)
PsiDesktopDone(t) ==
    /\ pc[t] = "psi_desktop"
    /\ \E scored \in BOOLEAN :
          AuxGoes(t, "idle",
                  Put(doc[t], "pagespeed",
                      IF scored THEN "scored" ELSE "score_errors"))

\* the wall clock moves on, up to last
TickTo(last) ==
    /\ now < last
    /\ now' = now + 1
    /\ UNCHANGED <<poolVars, leaked, semVars, pc, caller, ctxB, exc, held,
                   result, envVars, localVars, response, host, cooldown>>
Tick == TickTo(MaxTime)
LongTick == TickTo(MaxClock)

\* ---------------------------------------------------- _BrowserPool.stop
ctlFrame == <<leaked, semVars, caller, ctxB, exc, envVars, localVars, response, host,
              now, cooldown>>
\* lines 80-82
StopReset ==
    /\ browser' = 0
    /\ playwright' = 0
    /\ started' = FALSE

\* stop() after the browser part (lines 78-82): stop the launch handle
StopAfterClose ==
    IF playwright # 0
    THEN /\ pc' = [pc EXCEPT ![Ctl] = "stop_pwstop"]
         /\ held' = [held EXCEPT ![Ctl] = playwright]
         /\ result' = [result EXCEPT ![Ctl] = "none"]
         /\ UNCHANGED <<started, browser, playwright>>
    ELSE /\ StopReset
         /\ pc' = [pc EXCEPT ![Ctl] = "idle"]
         /\ held' = [held EXCEPT ![Ctl] = 0]
         /\ result' = [result EXCEPT ![Ctl] = "stop_done"]

\* shutdown_pool() / _POOL.stop() is called (lines 75-77, 174-175)
CtlStop ==
    /\ pc[Ctl] = "idle"
    /\ IF browser # 0
       THEN /\ pc' = [pc EXCEPT ![Ctl] = "stop_closing"]
            /\ held' = [held EXCEPT ![Ctl] = browser]
            /\ result' = [result EXCEPT ![Ctl] = "none"]
            /\ UNCHANGED <<started, browser, playwright>>
       ELSE StopAfterClose
    /\ UNCHANGED <<alive, ctlFrame>>

\* await self._browser.close() returns or raises (line 77); a browser that
\* closes takes every context in it along
StopCloseDone ==
    /\ pc[Ctl] = "stop_closing"
    /\ \E ok \in BOOLEAN, gone \in BOOLEAN :
          /\ ok => gone
          /\ alive' = IF gone THEN alive \ {held[Ctl]} ELSE alive
          /\ leaked' = IF gone THEN [leaked EXCEPT ![held[Ctl]] = 0] ELSE leaked
          /\ IF ok
             THEN StopAfterClose
             ELSE /\ pc' = [pc EXCEPT ![Ctl] = "idle"]
                  /\ held' = [held EXCEPT ![Ctl] = 0]
                  /\ result' = [result EXCEPT ![Ctl] = "stop_raised"]
                  /\ UNCHANGED <<started, browser, playwright>>
    /\ UNCHANGED <<semVars, caller, ctxB, exc, envVars, localVars, response, host, now,
                   cooldown>>

\* await self._playwright.stop() returns or raises (line 79)
StopPwDone ==
    /\ pc[Ctl] = "stop_pwstop"
    /\ \E ok \in BOOLEAN :
          IF ok
          THEN /\ StopReset
               /\ result' = [result EXCEPT ![Ctl] = "stop_done"]
          ELSE /\ result' = [result EXCEPT ![Ctl] = "stop_raised"]
               /\ UNCHANGED <<started, browser, playwright>>
    /\ pc' = [pc EXCEPT ![Ctl] = "idle"]
    /\ held' = [held EXCEPT ![Ctl] = 0]
    /\ UNCHANGED <<alive, ctlFrame>>

\* ------------------------------------------------------- specifications
StartStep == \E p \in Procs : StartPwDone(p) \/ StartLaunchDone(p)
StopStep == CtlStop \/ StopCloseDone \/ StopPwDone
GotoStep(t) == Goto1Done(t) \/ Goto2Done(t)
NudgeStep(t) == WheelDone(t) \/ SleepDone(t) \/ SettleDone(t)
CaptureStep(t) ==
    \/ SelectorDone(t)
    \/ ContentDone(t)
    \/ HeadersDone(t)
    \/ ScreenshotDone(t)
AuxStep(t) ==
    \/ RobotsDone(t)
    \/ LinksIntDone(t)
    \/ LinksExtDone(t)
    \/ PsiMobileDone(t)
    \/ PsiDesktopDone(t)

NextPool ==
    \/ \E t \in Tasks : CallPage(t)
    \/ \E t \in Tasks : SemResume(t)
    \/ \E t \in Tasks : NewContextDone(t)
    \/ \E t \in Tasks : NewPageDone(t)
    \/ \E t \in Tasks : BodyDone(t)
    \/ \E t \in Tasks : CtxCloseDone(t)
    \/ StartStep
    \/ CtlStart
    \/ StopStep

\* one caller: the semaphore never makes it wait
NextRender ==
    \/ \E t \in Tasks : CallFetchRendered(t)
    \/ \E t \in Tasks : NewContextDone(t)
    \/ \E t \in Tasks : NewPageDone(t)
    \/ \E t \in Tasks : GotoStep(t)
    \/ \E t \in Tasks : NudgeStep(t)
    \/ \E t \in Tasks : CaptureStep(t)
    \/ \E t \in Tasks : CtxCloseDone(t)
    \/ StartStep

NextScan ==
    \/ \E t \in Tasks : CallAnalyze(t)
    \/ \E t \in Tasks : SemResume(t)
    \/ \E t \in Tasks : NewContextDone(t)
    \/ \E t \in Tasks : NewPageDone(t)
    \/ \E t \in Tasks : GotoStep(t)
    \/ \E t \in Tasks : RestDone(t)
    \/ \E t \in Tasks : CtxCloseDone(t)
    \/ \E t \in Tasks : ScanPrimaryRendered(t)
    \/ \E t \in Tasks : ScanAmpRendered(t)
    \/ \E t \in Tasks : AuxStep(t)
    \/ StartStep
    \/ Tick

\* one request at a time to the HTTP handlers, with the wall clock
NextApi ==
    \/ \E t \in Tasks : CallHttpAnalyze(t)
    \/ \E t \in Tasks : NewContextDone(t)
    \/ \E t \in Tasks : NewPageDone(t)
    \/ \E t \in Tasks : GotoStep(t)
    \/ \E t \in Tasks : RestDone(t)
    \/ \E t \in Tasks : CtxCloseDone(t)
    \/ \E t \in Tasks : ScanPrimaryRendered(t)
    \/ \E t \in Tasks : ScanAmpRendered(t)
    \/ \E t \in Tasks : AuxStep(t)
    \/ StartStep
    \/ LongTick

\* the functions of app/seo.py that act on their arguments alone
NextPure ==
    \/ AnalyzeReturns
    \/ KeywordDensityReturns
    \/ ValidateJsonldReturns
    \/ CheckUrlsReturns
    \/ ParseImagesReturns
    \/ ParseLinksReturns
    \/ RobotsReturns

SpecPure == InitPure /\ [][NextPure]_vars
SpecPool == InitPool /\ [][NextPool]_vars
SpecApi == InitApi /\ [][NextApi]_vars
SpecRender == InitRender /\ [][NextRender]_vars
SpecScan == InitScan /\ [][NextScan]_vars

\* fair scheduling: the event loop runs every coroutine that can go on, and
\* every await of an admitted render, of a launch or of a close comes back
Progress(p) ==
    \/ StartPwDone(p)
    \/ StartLaunchDone(p)
    \/ p \in Tasks /\ SemResume(p)
    \/ p \in Tasks /\ NewContextDone(p)
    \/ p \in Tasks /\ NewPageDone(p)
    \/ p \in Tasks /\ BodyDone(p)
    \/ p \in Tasks /\ CtxCloseDone(p)
    \/ p = Ctl /\ (StopCloseDone \/ StopPwDone)
FairPool == SpecPool /\ \A p \in Procs : WF_vars(Progress(p))

\* ================================================================ claims
\* C1: the number of render contexts that are open (created by
\* _BrowserPool.page and not yet closed) never exceeds max_contexts.
C1_CeilingHolds == OpenContexts <= max_contexts

\* C2: every render context opened by _BrowserPool.page is closed on every
\* exit path, so no context is open once every call has ended.
C2_AllClosedWhenDone == Quiescent => OpenContexts = 0

\* C3: concurrent callers of start() (directly or through page()) launch the
\* browser process once: no two browser processes exist at the same time.
C3_SingleLaunch == Cardinality(alive) <= 1

\* C4: the slot taken by _BrowserPool.page is given back on every outcome of
\* the block: free slots and slots held always add up to max_contexts, and
\* once no render is in flight every slot is free again.
C4_SlotReleased ==
    /\ semFree + SlotsHeld = max_contexts
    /\ Quiescent => semFree = max_contexts
\* one block ended by a failing new_page, the other by a failing body and a
\* failing close, and all slots are back
C4_Witness ==
    /\ Quiescent
    /\ semFree = max_contexts
    /\ \E t, u \in Tasks :
          /\ result[t] = "page_error"
          /\ result[u] = "body_error_close_error"

\* C5: under fair scheduling a render that suspends on the semaphore because
\* the ceiling is reached is eventually admitted.
C5_NoStarvation ==
    \A t \in Tasks : (pc[t] = "sem_wait") ~> (pc[t] # "sem_wait")
\* a caller that had to wait has been handed the slot
C5_Witness == \E t \in Tasks : pc[t] = "sem_granted" /\ waiters = <<t>>

\* C6: the pool can be started again after stop(): once a stop() has ended,
\* a pool that is started has a running browser process behind its handle,
\* and a pool that is not started has no handle.
C6_Restartable ==
    (pc[Ctl] = "idle" /\ result[Ctl] \in {"stop_done", "stop_raised"}) =>
        IF started THEN browser \in alive ELSE browser = 0 /\ playwright = 0

\* C7: stop() does not raise when closing the browser or stopping the launch
\* handle fails, and it ends with the handles cleared and started = false.
C7_StopSuppresses ==
    [][(pc[Ctl] \in {"stop_closing", "stop_pwstop"} /\ pc'[Ctl] = "idle") =>
          /\ result'[Ctl] = "stop_done"
          /\ ~started'
          /\ browser' = 0
          /\ playwright' = 0]_vars

\* C8: a render navigates at most twice: first with the normalized wait
\* mode, and only after that goto failed once more with "networkidle"; the
\* navigation error leaves the render exactly when both gotos failed, and
\* after a retry that answered the render goes on as after a first goto
\* that answered.
C8_Attempts ==
    \A t \in Tasks :
       /\ pc[t] = "goto1" =>
             /\ nav[t] = "none"
             /\ gotoMode[t] = opts[t].wait
             /\ gotoMode[t] \in _ALLOWED_WAITS
       /\ pc[t] = "goto2" =>
             /\ nav[t] = "first_failed"
             /\ gotoMode[t] = W_networkidle
       /\ pc[t] \in BodyPcs \ {"goto1", "goto2"} =>
             /\ nav[t] \in {"first_ok", "retry_ok"}
             /\ exc[t] = "none"
       /\ pc[t] = "ctx_close" =>
             (exc[t] = "nav_error" <=> nav[t] = "both_failed")
C8_NavigationRetry ==
    [][\A t \in Tasks :
          /\ C8_Attempts'
          /\ (pc'[t] = "goto1" /\ pc[t] # "goto1") => pc[t] = "new_page"
          /\ (pc'[t] = "goto2" /\ pc[t] # "goto2") => pc[t] = "goto1"
          /\ (pc[t] = "goto2" /\ nav'[t] = "retry_ok") =>
                pc'[t] = "wheel1" /\ exc'[t] = "none"
          /\ (pc[t] = "ctx_close" /\ pc'[t] = "idle") =>
                /\ result'[t] \in {"nav_error", "nav_error_close_error"}
                      <=> nav[t] = "both_failed"
                /\ (nav[t] = "retry_ok" /\ exc[t] = "none"
                                        /\ result'[t] # "close_error")
                      => result'[t] = "ok"]_vars
\* a render asked for another mode went through the retry and reached the
\* end of the block with nothing raised
C8_Witness ==
    \E t \in Tasks :
       /\ pc[t] = "ctx_close"
       /\ nav[t] = "retry_ok"
       /\ exc[t] = "none"
       /\ opts[t].wait # W_networkidle

\* a host is in cooldown from _enter_cooldown until its until_ts is reached
CoolingDown(h) == h \in DOMAIN cooldown /\ cooldown[h] > now
\* t's call of analyze happens in this step
AnalyzeCalled(t) ==
    /\ pc[t] = "idle"
    /\ <<pc[t], result[t], host[t]>>' # <<pc[t], result[t], host[t]>>
\* a render of t starts in this step
RenderStarts(t) == phase'[t] # phase[t] /\ phase'[t] \in {"primary", "amp"}

\* C9: analyze(url) called while the host of url is in cooldown returns at
\* once with the zero-status result: it takes no slot, opens no context and
\* makes no auxiliary fetch.
C9_CooldownReturns ==
    [][\A t \in Tasks :
          (AnalyzeCalled(t) /\ CoolingDown(host'[t])) =>
              /\ result'[t] = "cooldown"
              /\ pc'[t] = "idle"
              /\ ~RenderStarts(t)
              /\ UNCHANGED <<semFree, waiters, ctxB, started, alive, cooldown>>]_vars
\* a scan was turned away at once while its host is in cooldown
C9_Witness ==
    \E t \in Tasks :
       /\ result[t] = "cooldown"
       /\ pc[t] = "idle"
       /\ CoolingDown(host[t])

\* C10: while a host is in cooldown no render to that host starts, neither
\* the primary render of a scan nor the AMP re-render of the WAF fallback.
C10_CooldownBlocksRenders ==
    [][\A t \in Tasks : RenderStarts(t) => ~CoolingDown(target'[t])]_vars

\* _enter_cooldown(h) is called in this step
CooldownEntered(h) ==
    /\ h \in DOMAIN cooldown'
    /\ h \in DOMAIN cooldown => cooldown'[h] # cooldown[h]

\* C11: after _enter_cooldown(host) at time t0 the entry is t0 +
\* WAF_COOLDOWN_SEC and _in_cooldown(host) is true at once and at every time
\* before the entry, false at every time after it; a host never entered is
\* never reported in cooldown.
C11_CooldownWindow ==
    [][\A h \in Hosts :
          /\ CooldownEntered(h) =>
                /\ cooldown'[h] = now + WAF_COOLDOWN_SEC
                /\ _in_cooldown(h)'
          /\ h \in DOMAIN cooldown' =>
                /\ now' < cooldown'[h] => _in_cooldown(h)'
                /\ now' > cooldown'[h] => ~_in_cooldown(h)'
          /\ h \notin DOMAIN cooldown' => ~_in_cooldown(h)']_vars
\* the cooldown of a host is over and a scan of that host is rendering again
C11_Witness ==
    \E t \in Tasks :
       /\ host[t] \in DOMAIN cooldown
       /\ now > cooldown[host[t]]
       /\ phase[t] = "primary"
       /\ pc[t] = "goto1"

\* the AMP re-render of t's scan ends in this step
AmpRenderEnds(t) == phase[t] = "amp" /\ phase'[t] # "amp"
\* ... and it gave no AMP page to analyze
AmpRenderFailed(t) == AmpRenderEnds(t) /\ result'[t] # "amp_analyzed"

\* C12: in the WAF fallback a failed AMP re-render does not fail the scan:
\* the host enters cooldown, an error is appended to the errors list, analyze
\* goes on with the auxiliary steps and ends by returning a result.
C12_AmpFailureKeepsScan ==
    [][\A t \in Tasks :
          /\ AmpRenderFailed(t) =>
                /\ pc'[t] = "robots"
                /\ CoolingDown(host[t])'
                /\ Get(doc'[t], "errors") = "waf_error"
          /\ (pc[t] \in AuxPcs /\ pc'[t] = "idle") =>
                result'[t] \in ScanReturns]_vars

\* how a scan ends whose primary page matched the block heuristic
WafResults == {"waf_no_amp", "amp_analyzed", "amp_blocked"}
\* t's primary render is through in this step and its page matched
WafMatched(t) ==
    /\ phase[t] = "primary"
    /\ phase'[t] # "primary"
    /\ result'[t] \in {"waf_amp", "waf_no_amp"}

\* C13: when the block heuristic matches the primary page the scan goes on
\* and either re-renders the AMP URL or puts the host in cooldown: no scan
\* with a matching primary page completes with neither of the two.
C13_WafHandled ==
    [][\A t \in Tasks :
          /\ WafMatched(t) =>
                /\ pc'[t] # "idle"
                /\ phase'[t] = "amp" \/ CooldownEntered(host[t])
          /\ (pc[t] \in AuxPcs /\ pc'[t] = "idle" /\ result'[t] \in WafResults) =>
                result'[t] \in {"amp_analyzed", "amp_blocked"}]_vars

\* C14: a successful AMP fallback replaces the content-signal fields with
\* the AMP page's and appends a note; status_code, content_length,
\* load_time_ms, performance and url (and every other key) stay those of the
\* canonical page, up to the answer, and no cooldown entry is made.
C14_AmpOverwriteFrame ==
    [][\A t \in Tasks :
          /\ (AmpRenderEnds(t) /\ result'[t] = "amp_analyzed") =>
                /\ \A k \in AmpKeys : Get(doc'[t], k) = "amp"
                /\ Get(doc'[t], "notes") = "amp_note"
                /\ \A k \in AllKeys \ (AmpKeys \cup {"notes"}) :
                      Get(doc'[t], k) = Get(doc[t], k)
                /\ \A k \in PerfKeys \cup {"url"} : Get(doc'[t], k) = "page"
                /\ cooldown' = cooldown
          /\ (result'[t] = "amp_analyzed" /\ response'[t].kind = "result") =>
                /\ \A k \in AmpKeys : Get(response'[t].body, k) = "amp"
                /\ \A k \in PerfKeys \cup {"url"} :
                      Get(response'[t].body, k) = "page"]_vars
\* the AMP page was analyzed in place of the blocked canonical page
C14_Witness ==
    \E t \in Tasks :
       /\ pc[t] = "robots"
       /\ result[t] = "amp_analyzed"
       /\ Get(doc[t], "title") = "amp"
       /\ Get(doc[t], "status_code") = "page"
       /\ Get(doc[t], "notes") = "amp_note"

LinkPcs == {"links_int", "links_ext"}
\* C15: a failing auxiliary step (robots/sitemaps, link checks, PSI) never
\* aborts the scan: each step leaves its section in the result, populated or
\* as its placeholder, the steps after it run as they would have, and every
\* result answered after a primary render has crawl_checks, link_checks and
\* pagespeed.
C15_AuxNeverAborts ==
    [][\A t \in Tasks :
          /\ pc[t] \in AuxPcs =>
                /\ pc'[t] \in AuxPcs \cup {"idle"}
                /\ result'[t] = result[t]
                /\ result'[t] \in ScanReturns
          /\ (pc[t] = "robots" /\ pc'[t] # "robots") =>
                /\ pc'[t] \in LinkPcs \cup {AfterLinks}
                /\ pc'[t] # "idle" => Get(doc'[t], "crawl_checks") # "absent"
          /\ (pc[t] \in LinkPcs \cup {"robots"}
                 /\ pc'[t] \notin LinkPcs \cup {"robots"}) =>
                /\ pc'[t] = AfterLinks
                /\ pc'[t] # "idle" => Get(doc'[t], "link_checks") # "absent"
          /\ (response'[t].kind = "result" /\ result'[t] # "cooldown") =>
                \A k \in AuxKeys : Get(response'[t].body, k) # "absent"]_vars
\* every auxiliary step failed and the scan's result was answered
C15_Witness ==
    \E t \in Tasks :
       /\ response[t].kind = "result"
       /\ Get(response[t].body, "crawl_checks") = "empty"
       /\ Get(response[t].body, "link_checks") = "empty"
       /\ Get(response[t].body, "pagespeed") = "score_errors"

\* the best-effort steps of a render: selector wait, headers, screenshot
BestEffortPcs == {"selector", "headers", "screenshot"}

\* C16: in a render a failing best-effort step (the selector wait, the
\* capture of the response headers, the screenshot) is caught where it
\* happens: whatever its outcome, no exception is in flight after it and
\* the render goes on to return its RenderResult.
C16_BestEffortCaught ==
    [][\A t \in Tasks :
          (pc[t] \in BestEffortPcs /\ pc'[t] # pc[t]) =>
              /\ exc'[t] = "none"
              /\ pc'[t] \in {"content", "headers", "screenshot", "ctx_close"}]_vars

\* C17: a call of analyze ends either by raising for a total navigation
\* failure or by returning a complete result: every dict returned, the one
\* for a host in cooldown included, has the same, full key set.
C17_StableShape ==
    \A t \in Tasks :
       (pc[t] = "idle" /\ caller[t] = "http") =>
           /\ result[t] \in ScanReturns \cup {"nav_error"}
           /\ response[t].kind = "result" => KeysOf(response[t].body) = AllKeys

\* the step of analyze a scan is in: 0 none, 1 primary render, 2 AMP
\* re-render, 3 robots/sitemaps, 4 internal links, 5 external links, 6 and 7
\* the two PSI lookups
ScanStage(p, ph) ==
    CASE p = "idle" -> 0
      [] p = "robots" -> 3
      [] p = "links_int" -> 4
      [] p = "links_ext" -> 5
      [] p = "psi_mobile" -> 6
      [] p = "psi_desktop" -> 7
      [] ph = "amp" -> 2
      [] OTHER -> 1

\* C18: the steps of one scan run one after the other in the order cooldown
\* check, primary render, AMP re-render, robots/sitemaps, internal links,
\* external links, PSI: a scan never goes back to an earlier step, the AMP
\* re-render starts only when the primary render's context.close() has
\* returned, a scan holds at most one slot (free and held slots add up to
\* max_contexts) and during the auxiliary fetches it has no context and no
\* slot and does not wait for one.
C18_StepsSequential ==
    [][\A t \in Tasks :
          LET before == ScanStage(pc[t], phase[t])
              after == ScanStage(pc'[t], phase'[t])
          IN /\ before = 0 => after \in {0, 1}
             /\ (before # 0 /\ after # 0) => after >= before
             /\ (before = 1 /\ after > 1) =>
                   /\ after \in {2, 3}
                   /\ pc[t] = "ctx_close" /\ exc[t] = "none"
             /\ (before = 2 /\ after > 2) =>
                   /\ after = 3
                   /\ pc[t] = "ctx_close" /\ exc[t] = "none"
             /\ (before \in 3..5 /\ after > 5) => after = 6
             /\ (before = 6 /\ after # 6) => after = 7
             /\ pc'[t] \in AuxPcs =>
                   /\ ctxB'[t] = 0
                   /\ \A i \in 1..Len(waiters') : waiters'[i] # t
             /\ semFree' + SlotsHeld' = max_contexts]_vars
\* a scan has been through the primary render, the AMP re-render and the
\* fetches before it and is at its last lookup while another scan renders
C18_Witness ==
    \E t, u \in Tasks :
       /\ pc[t] = "psi_desktop"
       /\ result[t] = "amp_analyzed"
       /\ pc[u] \in CtxPcs

\* C19: persistence is fire-and-forget: when analyze has returned a result
\* the handler answers with that result, whether or not save_analysis
\* failed.
C19_SaveFailureInvisible ==
    \A t \in Tasks :
       (pc[t] = "idle" /\ caller[t] = "http" /\ result[t] \in ScanReturns) =>
           response[t].kind = "result"

\* every spelling of every name, with the mode the name stands for
Spellings == UNION {{<<v, k[2]>> : v \in Variants(k[1])} : k \in WaitNames}
\* the tokens that are no spelling of a name
NoNames == {NoneTok} \cup BlankTokens \cup UnknownTokens
\* what the claim says of _normalize_wait_until for the token a
C20_NormalizedRight(a) ==
    \A d \in _ALLOWED_WAITS :
       LET r == _normalize_wait_until(a, d)
       IN /\ r \in _ALLOWED_WAITS
          /\ \A e \in Spellings : e[1] = a => r = e[2]
          /\ a \in NoNames => r = d
          /\ _normalize_wait_until(r, d) = r

\* C20: _normalize_wait_until(token, default) with a canonical default
\* returns one of load, domcontentloaded, networkidle, commit: the mode an
\* alias or a canonical name stands for, in any letter case and with
\* whitespace around it, default for None, empty and unknown tokens, and
\* itself when applied to its own result; so does fetch_rendered with the
\* argument or, without one, the environment's value.
C20_NormalizeWaitUntil ==
    \A t \in Tasks :
       (caller[t] = "render" /\ pc[t] # "idle") =>
           /\ C20_NormalizedRight(opts[t].arg)
           /\ opts[t].wait \in _ALLOWED_WAITS
           /\ opts[t].wait =
                 IF opts[t].arg \in {NoneTok, <<>>}
                 THEN _normalize_wait_until(envWait, W_networkidle)
                 ELSE _normalize_wait_until(opts[t].arg, W_networkidle)
\* a render was asked for with an alias in capitals and trailing whitespace
\* and waits for the mode the alias stands for
C20_Witness ==
    \E t \in Tasks :
       /\ pc[t] = "goto1"
       /\ opts[t].arg = Upper(W_dom \o <<"_">> \o W_loaded) \o <<"\n">>
       /\ opts[t].wait = W_domcontentloaded
       /\ gotoMode[t] = W_domcontentloaded

\* C21: in a result of analyze checks.indexable.ok is true exactly when the
\* status_code of that result is not 404 and its checks robots_meta_index
\* and x_robots_tag are ok, also when the AMP fallback has replaced
\* robots_meta.
C21_IndexableDerived ==
    pure.fn = "analyze" /\ pure.returned =>
        (pure.ret.checks.indexable <=>
            /\ pure.ret.status_code # 404
            /\ pure.ret.checks.robots_meta_index
            /\ pure.ret.checks.x_robots_tag)
\* the AMP fallback replaced robots_meta by the AMP page's noindex and the
\* result is indexable by the checks of the primary page
C21_Witness ==
    /\ pure.fn = "analyze" /\ pure.returned
    /\ pure.arg.waf /\ pure.arg.amp_url /\ pure.arg.body2
    /\ pure.arg.meta = "index, follow"
    /\ pure.ret.robots_meta = "noindex"
    /\ pure.ret.checks.indexable

\* the sum of the percents of entries, in hundredths
RECURSIVE C22_Sum(_)
C22_Sum(entries) ==
    IF entries = <<>> THEN 0
    ELSE Head(entries).percent + C22_Sum(Tail(entries))
\* the runs of text that keyword_density counts: three letters or more and
\* no stopword
C22_Counted(text) ==
    {i \in 1..Len(text) : Len(text[i]) >= 3 /\ Lower(text[i]) \notin STOPWORDS}
\* each entry's percent is 100*count/total to the nearest hundredth, count
\* the occurrences of its word among the counted tokens and total their
\* number; at most top_n entries, by non-increasing count
C22_Entries ==
    LET text == pure.arg.text
        ret == pure.ret
        total == Cardinality(C22_Counted(text))
    IN /\ Len(ret) <= pure.arg.top_n
       /\ \A r \in 1..Len(ret) :
            /\ ret[r].count =
                 Cardinality({i \in C22_Counted(text) :
                                 Lower(text[i]) = ret[r].word})
            /\ ret[r].count >= 1
            /\ 2 * (ret[r].percent * total - 10000 * ret[r].count) <= total
            /\ 2 * (10000 * ret[r].count - ret[r].percent * total) <= total
            /\ r > 1 => ret[r - 1].count >= ret[r].count
\* C22 as stated: the percents returned by keyword_density sum to at most
\* 100, each is 100*count/total rounded to 2 decimals, and the list has at
\* most N entries by non-increasing count.
C22_Original ==
    pure.fn = "keyword_density" /\ pure.returned =>
        /\ C22_Sum(pure.ret) <= 10000
        /\ C22_Entries
\* C22, amended: the percents returned by keyword_density sum to at most
\* 100 plus half a hundredth for each entry, each is 100*count/total
\* rounded to 2 decimals, and the list has at most N entries by
\* non-increasing count.
C22_KeywordDensity ==
    pure.fn = "keyword_density" /\ pure.returned =>
        /\ 2 * C22_Sum(pure.ret) <= 20000 + Len(pure.ret)
        /\ C22_Entries
\* three words counted 4, 1 and 1 times: 66.67 + 16.67 + 16.67
C22_Witness ==
    /\ pure.fn = "keyword_density" /\ pure.returned
    /\ Len(pure.ret) = 3
    /\ pure.ret[1].count = 4
    /\ C22_Sum(pure.ret) = 10001

\* the dicts among the entries handed to validate_jsonld, in order
C23_Dicts == LET IsDict(e) == e.dict IN SelectSeq(pure.arg, IsDict)
\* field f of dict it is absent or a blank string
C23_Lacks(it, f) ==
    \/ f \notin DOMAIN it.fields
    \/ it.fields[f] # NoneTok /\ \A i \in 1..Len(it.fields[f]) :
                                    it.fields[f][i] \in Whitespace
\* C23: validate_jsonld reports an item not ok exactly when a required
\* field of its type is absent or a blank string and lists exactly those
\* fields in table order (an Event without startDate: [startDate]); an
\* item of a type outside the table is ok; total_items is the number of
\* report items, ok_count the number of ok ones, has_errors holds iff
\* ok_count < total_items.
C23_ValidateJsonld ==
    pure.fn = "validate_jsonld" /\ pure.returned =>
        LET rep == pure.ret.items
            summ == pure.ret.summary
            Req(i) == _sd_req(rep[i].type)
        IN /\ Len(rep) = Len(C23_Dicts)
           /\ \A i \in 1..Len(rep) :
                /\ rep[i].ok <=>
                     ~\E k \in 1..Len(Req(i)) : C23_Lacks(C23_Dicts[i], Req(i)[k])
                /\ \A k \in 1..Len(Req(i)) :
                     C23_Lacks(C23_Dicts[i], Req(i)[k]) <=>
                     \E m \in 1..Len(rep[i].missing) :
                         rep[i].missing[m] = Req(i)[k]
                /\ \A m \in 1..Len(rep[i].missing) :
                     \E k \in m..Len(Req(i)) : rep[i].missing[m] = Req(i)[k]
                /\ \A m, n \in 1..Len(rep[i].missing) :
                     m # n => rep[i].missing[m] # rep[i].missing[n]
                /\ Req(i) = <<>> => rep[i].ok
                /\ ( /\ C23_Dicts[i].type \in {<<"str", "Event">>,
                                                <<"list", "Event", "Thing">>}
                     /\ ~C23_Lacks(C23_Dicts[i], "name")
                     /\ C23_Lacks(C23_Dicts[i], "startDate") )
                   => rep[i].missing = <<"startDate">> /\ ~rep[i].ok
           /\ summ.total_items = Len(rep)
           /\ summ.ok_count = Cardinality({i \in 1..Len(rep) : rep[i].ok})
           /\ summ.has_errors <=> summ.ok_count < summ.total_items
\* an Event with a name and no startDate next to an item of another type
C23_Witness ==
    /\ pure.fn = "validate_jsonld" /\ pure.returned
    /\ Len(pure.ret.items) = 2
    /\ pure.ret.items[1].type = "Event"
    /\ pure.ret.items[1].missing = <<"startDate">>
    /\ pure.ret.items[2].type = "Recipe"
    /\ pure.ret.items[2].ok
    /\ pure.ret.summary.has_errors

\* C24: _check_urls(urls, N), N = 4 in fast mode and 10 otherwise, returns
\* min(N, len(urls)) entries, one for each of the first N URLs in their
\* order, also when a request raises; each sampled URL gets one HEAD
\* request, and a GET request only after a HEAD answered 405, 403 or 400.
C24_CheckUrls ==
    pure.fn = "_check_urls" /\ pure.returned =>
        LET urls == pure.arg.urls
            N == pure.arg.limit
            out == pure.ret.out
            req == pure.ret.requests
            Heads == {k \in 1..Len(req) : req[k][1] = "HEAD"}
        IN /\ N = IF fastScan THEN 4 ELSE 10
           /\ Len(out) = IF N < Len(urls) THEN N ELSE Len(urls)
           /\ \A i \in 1..Len(out) : out[i].url = urls[i]
           /\ Cardinality(Heads) = Len(out)
           /\ \A i \in 1..Len(out) :
                \E k \in Heads :
                    /\ req[k][2] = urls[i]
                    /\ Cardinality({j \in Heads : j < k}) = i - 1
           /\ \A k \in 1..Len(req) :
                req[k][1] = "GET" =>
                    /\ k > 1
                    /\ req[k - 1] = <<"HEAD", req[k][2]>>
                    /\ req[k][2][1] \in {"405", "403", "400"}
\* five links in fast mode: four are sampled, one of them raises on HEAD
\* and one on the GET that follows a 400
C24_Witness ==
    /\ pure.fn = "_check_urls" /\ pure.returned
    /\ fastScan
    /\ Len(pure.arg.urls) = 5
    /\ Len(pure.ret.out) = 4
    /\ pure.ret.out[1].error /\ pure.arg.urls[1] = <<"raise", "raise">>
    /\ pure.ret.out[2].error /\ pure.arg.urls[2] = <<"400", "raise">>
    /\ pure.ret.out[3].status = "200" /\ pure.arg.urls[3] = <<"405", "200">>

\* the <img> elements handed to parse_html, all of them or those with an alt
\* that is not blank
C25_Imgs(with_alt) ==
    LET RECURSIVE Sum(_)
        Sum(runs) ==
            IF runs = <<>> THEN 0
            ELSE Sum(Tail(runs))
                 + IF with_alt => Head(runs)[1] = <<"R">>
                   THEN Head(runs)[2] ELSE 0
    IN Sum(pure.arg)
\* C25: alt_coverage.percent is 100.0 for a page without images and
\* 100*alt_ok/total_imgs rounded to 2 decimals otherwise; alt_coverage.ok
\* holds iff total_imgs = 0 or 100*alt_ok >= 80*total_imgs; alt_ok and
\* the length of images_missing_alt add up to total_imgs.
C25_AltCoverage ==
    pure.fn = "parse_html_images" /\ pure.returned =>
        LET total_imgs == C25_Imgs(FALSE)
            alt_ok == C25_Imgs(TRUE)
            missing == pure.ret.images_missing_alt
            RECURSIVE Entries(_)
            Entries(k) == IF k = 0 THEN 0 ELSE missing[k] + Entries(k - 1)
        IN /\ pure.ret.total_imgs = total_imgs
           /\ total_imgs = 0 => pure.ret.percent = 10000
           /\ total_imgs # 0 =>
                /\ 2 * (pure.ret.percent * total_imgs - 10000 * alt_ok)
                     <= total_imgs
                /\ 2 * (10000 * alt_ok - pure.ret.percent * total_imgs)
                     <= total_imgs
           /\ pure.ret.ok <=>
                (total_imgs = 0 \/ 100 * alt_ok >= 80 * total_imgs)
           /\ alt_ok + Entries(Len(missing)) = total_imgs

\* the URLs that the anchors handed to parse_html resolve to
C26_Resolved ==
    {urljoin(Strip(pure.arg[i].href)) :
        i \in {j \in 1..Len(pure.arg) : Strip(pure.arg[j].href) # <<>>}}
\* list has no duplicates and no empty entries and keeps the order in which
\* its URLs are first met among the anchors of the document, for
\* nofollow_links among those with rel nofollow
C26_Clean(list, nofollow) ==
    LET Feeds(i) == /\ Strip(pure.arg[i].href) # <<>>
                    /\ nofollow => pure.arg[i].rel = "NoFollow ugc"
    IN /\ \A m \in 1..Len(list) : list[m] # ""
       /\ \A m, n \in 1..Len(list) : m # n => list[m] # list[n]
       /\ \A m, n \in 1..Len(list) :
            m < n =>
               \E i \in 1..Len(pure.arg) :
                   /\ Feeds(i)
                   /\ urljoin(Strip(pure.arg[i].href)) = list[m]
                   /\ \A j \in 1..i :
                        Feeds(j) =>
                           urljoin(Strip(pure.arg[j].href)) # list[n]
\* C26: each of internal_links, external_links and nofollow_links has no
\* duplicates and no empty entries and keeps first-seen order; every
\* resolved anchor URL is in exactly one of internal_links and
\* external_links; every entry of nofollow_links is in one of them.
C26_LinkLists ==
    pure.fn = "parse_html_links" /\ pure.returned =>
        LET Members(list) == {list[m] : m \in 1..Len(list)}
            int == Members(pure.ret.internal_links)
            ext == Members(pure.ret.external_links)
        IN /\ C26_Clean(pure.ret.internal_links, FALSE)
           /\ C26_Clean(pure.ret.external_links, FALSE)
           /\ C26_Clean(pure.ret.nofollow_links, TRUE)
           /\ int \cup ext = C26_Resolved
           /\ int \cap ext = {}
           /\ Members(pure.ret.nofollow_links) \subseteq int \cup ext
\* one URL met twice by different hrefs, once with rel nofollow, and an
\* external one
C26_Witness ==
    /\ pure.fn = "parse_html_links" /\ pure.returned
    /\ Len(pure.arg) = 3
    /\ pure.arg[1].href = <<"/a">>
    /\ pure.arg[2].href = <<" ", "a", " ">>
    /\ pure.ret.internal_links = <<"https://site/a">>
    /\ pure.ret.nofollow_links = <<"https://site/a">>
    /\ pure.ret.external_links = <<"https://other/x">>

\* C27: under any interleaving of page(), start() and stop(), stop() while
\* renders are in flight or wait for a slot included, page() creates a
\* context only on a started pool whose browser handle is a live browser,
\* and no admitted render works on a stopped pool.
C27_LivePool ==
    \A t \in Tasks :
        /\ result[t] # "attr_error"
        /\ pc[t] \in {"new_context"} \cup CtxPcs =>
                started /\ browser # 0 /\ browser \in alive

\* C28: the cooldown table only grows: no entry is ever deleted, an expired
\* one stays; an entry is made or renewed only by a scan whose primary page
\* matched the block heuristic; a scan that ends with a navigation error
\* or without a match leaves the table as it is.
C28_TableOnlyGrows ==
    [][/\ DOMAIN cooldown \subseteq DOMAIN cooldown'
       /\ \A h \in DOMAIN cooldown :
            cooldown'[h] # cooldown[h] => CooldownEntered(h)
       /\ \A h \in Hosts :
            CooldownEntered(h) =>
                \E t \in Tasks :
                    /\ caller[t] \in ScanCallers
                    /\ host[t] = h
                    /\ result[t] = "waf_amp"
                    /\ AmpRenderEnds(t)
                    /\ \A g \in DOMAIN cooldown \ {h} :
                         cooldown'[g] = cooldown[g]
       /\ \A t \in Tasks :
            ( /\ caller[t] \in ScanCallers
              /\ pc[t] # "idle" /\ pc'[t] = "idle"
              /\ result'[t] \notin WafResults ) =>
                cooldown' = cooldown]_vars
\* the entry of a host has run out and is still in the table after a later
\* scan of that host that met no block page
C28_Witness ==
    \E t \in Tasks :
       /\ pc[t] = "idle"
       /\ result[t] = "plain"
       /\ host[t] \in DOMAIN cooldown
       /\ now > cooldown[host[t]]

\* the steps that may follow step p of a render asked for with options o
C29_After(p, o) ==
    CASE p = "new_context" -> {"new_page"}
      [] p = "new_page" -> {"goto1"}
      [] p = "goto1" -> {"goto2", "wheel1"}
      [] p = "goto2" -> {"wheel1"}
      [] p = "wheel1" -> {"sleep1"}
      [] p = "sleep1" -> {"wheel2"}
      [] p = "wheel2" -> {"sleep2"}
      [] p = "sleep2" -> {"wheel3"}
      [] p = "wheel3" -> {"sleep3"}
      [] p = "sleep3" -> IF o.settle THEN {"settle"} ELSE {"selector"}
      [] p = "settle" -> {"selector"}
      [] p = "selector" -> {"content"}
      [] p = "content" -> IF o.shot THEN {"headers", "screenshot"}
                          ELSE {"headers", "ctx_close"}
      [] p = "headers" -> IF o.shot THEN {"screenshot"} ELSE {"ctx_close"}
      [] p = "screenshot" -> {"ctx_close"}
      [] OTHER -> {}
\* C29: a render that succeeds goes, holding its slot, through slot
\* acquisition, context creation, navigation, three scroll nudges each
\* followed by a pause, the settle delay, the selector wait, the capture of
\* HTML and headers, the screenshot if asked for, and the context close;
\* its RenderResult is made only once the context is closed and the slot
\* released.
C29_RenderOrder ==
    [][\A t \in Tasks :
          (caller'[t] = "render" /\ pc'[t] # pc[t]) =>
             /\ (pc[t] \notin SlotPcs /\ pc'[t] \in SlotPcs) =>
                   /\ pc'[t] = "new_context"
                   /\ semFree' = semFree - 1
             /\ (pc[t] \in SlotPcs /\ pc'[t] # "idle" /\ exc'[t] = "none") =>
                   /\ pc'[t] \in C29_After(pc[t], opts[t])
                   /\ pc'[t] \in SlotPcs
                   /\ semFree' = semFree
                   /\ pc'[t] \in CtxPcs => ctxB'[t] # 0
             /\ (pc'[t] = "idle" /\ result'[t] = "ok") =>
                   /\ pc[t] = "ctx_close"
                   /\ exc[t] = "none"
                   /\ ctxB'[t] = 0
                   /\ semFree' = semFree + 1]_vars
\* a render asked for with settle delay and screenshot has returned its
\* RenderResult
C29_Witness ==
    \E t \in Tasks :
       /\ caller[t] = "render"
       /\ pc[t] = "idle"
       /\ result[t] = "ok"
       /\ semFree = max_contexts
       /\ ctxB[t] = 0

\* line k of the robots.txt handed to robots_and_sitemaps is a Disallow
\* rule of a group for user-agent *: the user-agent lines that head its
\* group name *
C30_StarRule(k) ==
    LET lines == pure.arg.lines
        Agents == {u \in 1..(k - 1) : lines[u][1] = "user-agent"}
    IN /\ lines[k][1] = "disallow"
       /\ \E u \in Agents :
            /\ lines[u][2] = <<"*">>
            /\ \A v \in u..(k - 1) :
                 lines[v][1] # "user-agent" => \A w \in Agents : w < v
\* C30: blocked_by_robots is true only if a Disallow rule with a path that
\* is not empty, in the group for user-agent *, is a prefix of the scanned
\* path; a Disallow without path and the rules of another agent's group
\* never make it true; it is null when robots.txt could not be fetched or
\* is empty.
C30_BlockedByRobots ==
    pure.fn = "robots_and_sitemaps" /\ pure.returned =>
        LET lines == pure.arg.lines
            path == IF pure.arg.path = <<>> THEN <<"/">> ELSE pure.arg.path
        IN /\ pure.ret.blocked_by_robots = "true" =>
                \E k \in 1..Len(lines) :
                    /\ C30_StarRule(k)
                    /\ lines[k][2] # <<>>
                    /\ Len(lines[k][2]) <= Len(path)
                    /\ SubSeq(path, 1, Len(lines[k][2])) = lines[k][2]
           /\ (pure.arg.fetched # "200" \/ lines = <<>>) =>
                pure.ret.blocked_by_robots = "null"

\* C31: the wait mode of the primary goto of fetch_rendered is one of load,
\* domcontentloaded, networkidle, commit, and for a wait_until argument that
\* is None, empty or no spelling of a mode it is the mode that
\* PLAYWRIGHT_WAIT_UNTIL stands for, networkidle only when that value is
\* itself no spelling of a mode.
C31_PrimaryWaitMode ==
    \A t \in Tasks :
       (caller[t] = "render" /\ pc[t] = "goto1") =>
           /\ gotoMode[t] \in _ALLOWED_WAITS
           /\ opts[t].arg \in NoNames =>
                 gotoMode[t] = _normalize_wait_until(envWait, W_networkidle)

====
